---- MODULE Spec2Model ----
(***************************************************************************)
(* A model of wdl-rs: the validators of the AST (model.rs), the line-keyed *)
(* comment map (model.rs), the concrete-tree cursors of the two backends   *)
(* (parsers/pest/node.rs, parsers/tree_sitter/node.rs), the top-level      *)
(* lowering (parsers/*/document.rs) and the parser facade                  *)
(* (parsers/mod.rs, parsers/*/mod.rs).                                     *)
(***************************************************************************)
EXTENDS Integers, Sequences, FiniteSets, TLC

VARIABLES
    vin,        \* validators: the element handed to validate
    vout,       \* validators: the Result of validate
    cmap,       \* comment map: the Comments value (BTreeMap in key order)
    cres,       \* comment map: the result of the last operation
    backend,    \* facade: the parser instance, "pest" or "tree_sitter"
    tree,       \* facade: the concrete tree the backend produced
    source,     \* facade: the source argument of parse_text
    pc,         \* facade: the position inside parse_text
    cursor,     \* facade: the tree-sitter TreeCursor, the path of its node
    comments,   \* facade: the shared Rc<RefCell<Comments>>
    doc,        \* facade: the Document under construction
    result,     \* facade: the Result of parse_text
    trace,      \* history: the stages parse_text went through
    attempts,   \* history: the try_insert calls of the cursors
    yielded,    \* history: the nodes the cursors returned to the lowering
    file,       \* facade: the path argument of parse_file, "" without one
    prev,       \* history: the Result of the call before this one
    calls,      \* history: the number of parse_text calls on this parser
    input,      \* equivalence: the text given to both backends
    both,       \* equivalence: the Documents the two backends lower it to
    arg,        \* functions of model.rs: the call, its function and arguments
    ret,        \* functions of model.rs: what the call returned
    iter        \* iterator: the TSNodeIterator the calls are made on

valVars == <<vin, vout>>
cmVars == <<cmap, cres>>
callVars == <<file, prev, calls>>
eqVars == <<input, both>>
fnVars == <<arg, ret, iter>>
parseVars ==
    <<backend, tree, source, pc, cursor, comments, doc, result, trace, attempts, yielded,
      file, prev, calls, input, both, arg, ret, iter>>
vars ==
    <<vin, vout, cmap, cres, backend, tree, source, pc, cursor, comments, doc, result,
      trace, attempts, yielded, file, prev, calls, input, both, arg, ret, iter>>

(***************************************************************************)
(* Bounds of the model.                                                    *)
(***************************************************************************)
MaxTaskBody == 3
MaxWorkflowBody == 3
MaxDocBody == 3
MaxLine == 2

Names == {"a", "b"}

\* All sequences over S of length at most n.
SeqsUpTo(S, n) == UNION {[1..k -> S] : k \in 0..n}

\* Number of elements of the sequence body that are equal to k.
Count(body, k) == Cardinality({i \in 1..Len(body) : body[i] = k})

Ok == [kind |-> "Ok"]
None == [kind |-> "None"]

(***************************************************************************)
(* Validators (model.rs).  An element of a body is represented by its      *)
(* kind(); a Task or Workflow by its name and body; a DocumentElement by   *)
(* its variant, name and body.                                             *)
(***************************************************************************)
TaskElementKinds ==
    {"input", "output", "declaration", "command", "runtime", "meta", "parameter_meta"}

WorkflowElementKinds ==
    {"input", "output", "declaration", "call", "scatter", "conditional", "meta",
     "parameter_meta"}

\* Task::validate, the match that computes must_be_unique.
TaskMustBeUnique(kind) ==
    kind \in {"input", "output", "command", "runtime", "meta", "parameter_meta"}

\* Task::validate, the for loop from element i on with the HashSet seen:
\* the first repeated element's error, or the final seen set.
RECURSIVE TaskScan(_, _, _, _)
TaskScan(name, body, i, seen) ==
    IF i > Len(body) THEN [kind |-> "Seen", seen |-> seen]
    ELSE IF TaskMustBeUnique(body[i])
         THEN IF body[i] \in seen
              THEN [kind |-> "TaskRepeatedElement", task |-> name, elem |-> body[i]]
              ELSE TaskScan(name, body, i + 1, seen \cup {body[i]})
         ELSE TaskScan(name, body, i + 1, seen)

TaskValidateNoCommandCheck(task) ==
    LET r == TaskScan(task.name, task.body, 1, {})
    IN  IF r.kind # "Seen" THEN r ELSE Ok

TaskValidateCommandNotUnique(task) ==
    LET r == TaskScan(task.name, SelectSeq(task.body, LAMBDA k : k # "command"), 1, {})
    IN  IF r.kind # "Seen" THEN r
        ELSE IF Count(task.body, "command") = 0
             THEN [kind |-> "TaskMissingCommand", task |-> task.name]
             ELSE Ok

\* Task::validate
TaskValidate(task) ==
    LET r == TaskScan(task.name, task.body, 1, {})
    IN  IF r.kind # "Seen" THEN r
        ELSE IF "command" \notin r.seen
             THEN [kind |-> "TaskMissingCommand", task |-> task.name]
             ELSE Ok

WorkflowMustBeUniqueNoParameterMeta(kind) == kind \in {"input", "output", "meta"}

\* Workflow::validate, the arms of the match that check uniqueness.
WorkflowMustBeUnique(kind) == kind \in {"input", "output", "meta", "parameter_meta"}

\* Workflow::validate, the for loop from element i on with the HashSet seen.
RECURSIVE WorkflowScan(_, _, _, _)
WorkflowScan(name, body, i, seen) ==
    IF i > Len(body) THEN Ok
    ELSE IF WorkflowMustBeUnique(body[i])
         THEN IF body[i] \in seen
              THEN [kind |-> "WorkflowRepeatedElement", workflow |-> name,
                    elem |-> body[i]]
              ELSE WorkflowScan(name, body, i + 1, seen \cup {body[i]})
         ELSE WorkflowScan(name, body, i + 1, seen)

\* Workflow::validate
WorkflowValidate(workflow) == WorkflowScan(workflow.name, workflow.body, 1, {})

\* Document::validate, the for loop from element i on: the first error of a
\* Task or Workflow, or the two counters.
RECURSIVE DocumentScan(_, _, _, _)
DocumentScan(body, i, element_count, workflow_count) ==
    IF i > Len(body)
    THEN [kind |-> "Counts", element_count |-> element_count,
          workflow_count |-> workflow_count]
    ELSE IF body[i].kind = "task"
         THEN LET r == TaskValidate(body[i])
              IN  IF r # Ok THEN r
                  ELSE DocumentScan(body, i + 1, element_count + 1, workflow_count)
    ELSE IF body[i].kind = "workflow"
         THEN LET r == WorkflowValidate(body[i])
              IN  IF r # Ok THEN r
                  ELSE DocumentScan(body, i + 1, element_count + 1, workflow_count + 1)
    ELSE IF body[i].kind = "struct"
         THEN DocumentScan(body, i + 1, element_count + 1, workflow_count)
    ELSE DocumentScan(body, i + 1, element_count, workflow_count)

DocumentValidateCountsImports(body) ==
    LET r == DocumentScan(body, 1, 0, 0)
    IN  IF r.kind # "Counts" THEN r
        ELSE IF Len(body) = 0 THEN [kind |-> "DocumentIncomplete"]
        ELSE IF ~(r.workflow_count <= 1) THEN [kind |-> "DocumentMultipleWorkflows"]
        ELSE Ok

DocumentValidateIncompleteOnly(body) ==
    LET r == DocumentScan(body, 1, 0, 0)
    IN  IF r.kind # "Counts" THEN r
        ELSE IF ~(r.element_count > 0) \/ ~(r.workflow_count <= 1)
             THEN [kind |-> "DocumentIncomplete"]
        ELSE Ok

\* Document::validate
DocumentValidate(body) ==
    LET r == DocumentScan(body, 1, 0, 0)
    IN  IF r.kind # "Counts" THEN r
        ELSE IF ~(r.element_count > 0) THEN [kind |-> "DocumentIncomplete"]
        ELSE IF ~(r.workflow_count <= 1) THEN [kind |-> "DocumentMultipleWorkflows"]
        ELSE Ok

(***************************************************************************)
(* The comment map (model.rs).  Comments wraps a BTreeMap<usize, Anchor>:  *)
(* it is represented by the sequence of its entries in the order the map   *)
(* iterates them, an entry being [key, value].                             *)
(***************************************************************************)
Position(line, column, offset) == [line |-> line, column |-> column, offset |-> offset]

\* Anchor::new
Anchor(element, span) == [element |-> element, span |-> span]

Err(e) == [kind |-> "Err", error |-> e]
Some(v) == [kind |-> "Some", value |-> v]
Panic == [kind |-> "Panic"]

\* BTreeMap::contains_key
ContainsKey(map, key) == \E i \in 1..Len(map) : map[i].key = key

\* BTreeMap::insert: the value of an existing key is replaced, a new key is
\* placed after the smaller keys and before the larger ones.
BTreeInsert(map, key, value) ==
    IF ContainsKey(map, key)
    THEN [i \in 1..Len(map) |->
            IF map[i].key = key THEN [key |-> key, value |-> value] ELSE map[i]]
    ELSE SelectSeq(map, LAMBDA e : e.key < key)
            \o <<[key |-> key, value |-> value]>>
            \o SelectSeq(map, LAMBDA e : e.key > key)

TryInsertNoEnsure(map, line, comment) ==
    [map |-> BTreeInsert(map, line, comment), result |-> Ok]

\* Comments::try_insert: the map afterwards and the Result.
TryInsert(map, line, comment) ==
    IF ContainsKey(map, line)
    THEN [map |-> map, result |-> Err([kind |-> "CommentRepeatedLine", line |-> line])]
    ELSE [map |-> BTreeInsert(map, line, comment), result |-> Ok]

\* Comments::get
CommentsGet(map, line) ==
    IF ContainsKey(map, line)
    THEN Some((CHOOSE e \in {map[i] : i \in 1..Len(map)} : e.key = line).value)
    ELSE None

\* Comments::values: the values in the order of iteration.
CommentsValues(map) == [i \in 1..Len(map) |-> map[i].value]

\* Comments::range: the entries the iterator yields, in the order it yields
\* them; BTreeMap::range panics when the start of the range is above its end.
CommentsRange(map, l, r) ==
    IF l > r THEN Panic
    ELSE [kind |-> "Entries", entries |-> SelectSeq(map, LAMBDA e : l <= e.key /\ e.key < r)]

(***************************************************************************)
(* The inputs of the validators.                                           *)
(***************************************************************************)
Tasks ==
    [kind : {"task"}, name : Names, body : SeqsUpTo(TaskElementKinds, MaxTaskBody)]

Workflows ==
    [kind : {"workflow"}, name : Names,
     body : SeqsUpTo(WorkflowElementKinds, MaxWorkflowBody)]

\* The elements a Document body is drawn from: an Import, a Struct, Tasks that
\* pass, miss their command or repeat an element, Workflows that pass or repeat.
DocumentElements ==
    {[kind |-> "import", name |-> "a", body |-> <<>>],
     [kind |-> "struct", name |-> "a", body |-> <<>>],
     [kind |-> "task", name |-> "a", body |-> <<"command">>],
     [kind |-> "task", name |-> "b", body |-> <<"input", "declaration">>],
     [kind |-> "task", name |-> "b", body |-> <<"command", "command">>],
     [kind |-> "workflow", name |-> "a", body |-> <<"call", "call">>],
     [kind |-> "workflow", name |-> "b", body |-> <<"input", "input">>]}

Documents == [kind : {"document"}, body : SeqsUpTo(DocumentElements, MaxDocBody)]

InitComments == cmap = <<>> /\ cres = None
InitValidators == vin = None /\ vout = None

\* No parser was constructed.
InitParser ==
    /\ backend = "" /\ tree = None /\ source = None /\ pc = "idle"
    /\ cursor = <<>> /\ comments = <<>> /\ doc = None /\ result = None
    /\ trace = <<>> /\ attempts = <<>> /\ yielded = <<>>
    /\ file = "" /\ prev = None /\ calls = 0
    /\ input = None /\ both = None
    /\ arg = None /\ ret = None /\ iter = None

InitValidate ==
    /\ vin \in Tasks \cup Workflows \cup Documents
    /\ vout = None
    /\ InitComments
    /\ InitParser

ValidateTask ==
    /\ vin.kind = "task" /\ vout = None
    /\ vout' = TaskValidate(vin)
    /\ UNCHANGED <<vin, cmVars, parseVars>>

ValidateWorkflow ==
    /\ vin.kind = "workflow" /\ vout = None
    /\ vout' = WorkflowValidate(vin)
    /\ UNCHANGED <<vin, cmVars, parseVars>>

ValidateDocument ==
    /\ vin.kind = "document" /\ vout = None
    /\ vout' = DocumentValidate(vin.body)
    /\ UNCHANGED <<vin, cmVars, parseVars>>

NextValidate == ValidateTask \/ ValidateWorkflow \/ ValidateDocument

SpecValidate == InitValidate /\ [][NextValidate]_vars

(***************************************************************************)
(* The comment map driven by arbitrary calls.                              *)
(***************************************************************************)
Lines == 0..MaxLine

\* The comments handed to try_insert: a text on a line, one column wide.
CommentAnchors ==
    {Anchor(t, [start |-> Position(l, 0, 2 * l), end |-> Position(l, 1, 2 * l + 1)]) :
        t \in {"#x", "#y"}, l \in Lines}

InitCommentMap == InitComments /\ InitValidators /\ InitParser

CallTryInsert ==
    \E line \in Lines, comment \in CommentAnchors :
        LET r == TryInsert(cmap, line, comment)
        IN  /\ cmap' = r.map
            /\ cres' = [op |-> "try_insert", line |-> line, comment |-> comment,
                        result |-> r.result]
            /\ UNCHANGED <<valVars, parseVars>>

CallGet ==
    \E line \in Lines :
        /\ cres' = [op |-> "get", line |-> line, result |-> CommentsGet(cmap, line)]
        /\ UNCHANGED <<cmap, valVars, parseVars>>

CallValues ==
    /\ cres' = [op |-> "values", result |-> CommentsValues(cmap)]
    /\ UNCHANGED <<cmap, valVars, parseVars>>

CallRange ==
    \E l \in 0..(MaxLine + 1), r \in 0..(MaxLine + 1) :
        /\ cres' = [op |-> "range", l |-> l, r |-> r, result |-> CommentsRange(cmap, l, r)]
        /\ UNCHANGED <<cmap, valVars, parseVars>>

NextCommentMap == CallTryInsert \/ CallGet \/ CallValues \/ CallRange

SpecCommentMap == InitCommentMap /\ [][NextCommentMap]_vars

(***************************************************************************)
(* Concrete trees.  A node of a concrete tree is a record: its kind (the   *)
(* tree-sitter node kind or the pest Rule), the field name it has in its   *)
(* parent ("" for none), a flag ("ok", "extra", "error", "missing": the    *)
(* tree-sitter predicates is_extra, is_error, is_missing), the zero-based  *)
(* row its text starts on, its text, whether it is a token, and its        *)
(* children.  A node is addressed by its path, the child indices from the  *)
(* root; the path also serves as the node id.                              *)
(***************************************************************************)
Leaf(kind, field, text) ==
    [kind |-> kind, field |-> field, flag |-> "ok", row |-> 0, text |-> text,
     atom |-> TRUE, kids |-> <<>>]

Branch(kind, field, kids) ==
    [kind |-> kind, field |-> field, flag |-> "ok", row |-> 0, text |-> "",
     atom |-> FALSE, kids |-> kids]

RECURSIVE NodeAt(_, _)
NodeAt(t, path) == IF path = <<>> THEN t ELSE NodeAt(t.kids[Head(path)], Tail(path))

\* The tree t with node n placed before child i of the node at path.
RECURSIVE InsertAt(_, _, _, _)
InsertAt(t, path, i, n) ==
    IF path = <<>>
    THEN [t EXCEPT !.kids = SubSeq(@, 1, i - 1) \o <<n>> \o SubSeq(@, i, Len(@))]
    ELSE [t EXCEPT !.kids[Head(path)] = InsertAt(@, Tail(path), i, n)]

\* The places between the children of the nodes of a tree, in source order.
RECURSIVE Slots(_, _)
RECURSIVE SlotsFrom(_, _, _)
Slots(node, path) == IF node.atom THEN <<>> ELSE SlotsFrom(node, path, 1)
SlotsFrom(node, path, k) ==
    <<[path |-> path, idx |-> k]>> \o
    (IF k > Len(node.kids) THEN <<>>
     ELSE Slots(node.kids[k], Append(path, k)) \o SlotsFrom(node, path, k + 1))

(***************************************************************************)
(* Spans of concrete nodes.  tree-sitter rows are zero-based and taken as  *)
(* the line; pest's line_col is one-based.  Columns and offsets are not    *)
(* told apart by the trees of this model.                                  *)
(***************************************************************************)
TsSpan(node) ==
    [start |-> Position(node.row, 0, 0), end |-> Position(node.row, 1, 1)]

PestSpan(node) ==
    [start |-> Position(node.row + 1, 1, 0), end |-> Position(node.row + 1, 2, 1)]

(***************************************************************************)
(* The documents the trees are built from: a version and the body, each    *)
(* element with the kinds of its own body.                                 *)
(***************************************************************************)
BaseDocuments ==
    {[version |-> "1.1", body |-> <<[kind |-> "task", name |-> "a", body |-> <<"command">>]>>],
     [version |-> "1.1",
      body |-> <<[kind |-> "task", name |-> "a", body |-> <<"input", "command">>]>>],
     [version |-> "1.1", body |-> <<[kind |-> "task", name |-> "b", body |-> <<"input">>]>>],
     [version |-> "1.0",
      body |-> <<[kind |-> "struct", name |-> "a", body |-> <<>>],
                 [kind |-> "workflow", name |-> "b", body |-> <<"input">>]>>],
     [version |-> "1.1",
      body |-> <<[kind |-> "workflow", name |-> "a", body |-> <<>>],
                 [kind |-> "workflow", name |-> "b", body |-> <<>>]>>],
     [version |-> "2.0", body |-> <<[kind |-> "task", name |-> "a", body |-> <<"command">>]>>]}

\* The tree-sitter tree of an element of a task or workflow body.
TsElementTree(kind) ==
    IF kind = "input"
    THEN Branch("input", "",
            <<Leaf("input", "", "input"),
              Branch("input_declarations", "declarations",
                 <<Leaf("{", "", "{"),
                   Branch("unbound_declaration", "",
                      <<Leaf("int_type", "type", "Int"), Leaf("identifier", "name", "x")>>),
                   Leaf("}", "", "}")>>)>>)
    ELSE Branch("command", "",
            <<Leaf("command", "", "command"), Leaf("{", "", "{"),
              Branch("command_parts", "parts", <<Leaf("content", "", "echo")>>),
              Leaf("}", "", "}")>>)

\* The tree-sitter tree of a struct, task or workflow.
TsDocumentElementTree(e) ==
    Branch(e.kind, "",
       <<Leaf(e.kind, "", e.kind), Leaf("identifier", "name", e.name),
         Branch("block", IF e.kind = "struct" THEN "fields" ELSE "body",
            <<Leaf("{", "", "{")>> \o
            [i \in 1..Len(e.body) |-> TsElementTree(e.body[i])] \o
            <<Leaf("}", "", "}")>>)>>)

\* The tree-sitter tree of a document.
TsTree(d) ==
    Branch("document", "",
       <<Branch("version", "version",
            <<Leaf("version", "", "version"),
              Leaf("version_identifier", "identifier", d.version)>>),
         Branch("document_body", "body",
            [i \in 1..Len(d.body) |-> TsDocumentElementTree(d.body[i])])>>)

\* The pest pair of an element of a task or workflow body.
PestElementTree(kind) ==
    IF kind = "input"
    THEN Branch("input", "",
            <<Branch("unbound_declaration", "",
                 <<Branch("typedef", "", <<Leaf("primitive_type", "", "Int")>>),
                   Leaf("identifier", "", "x")>>)>>)
    ELSE Branch("command_heredoc", "", <<Leaf("command_heredoc_literal", "", "echo")>>)

\* The pest pair of a struct, task or workflow.
PestDocumentElementTree(e) ==
    Branch(IF e.kind = "struct" THEN "structdef" ELSE e.kind, "",
       <<Leaf("identifier", "", e.name)>> \o
       [i \in 1..Len(e.body) |-> PestElementTree(e.body[i])])

\* The pest pair of a document: the version, the elements and EOI.
PestTree(d) ==
    Branch("document", "",
       <<Branch("version", "", <<Leaf("version_identifier", "", d.version)>>)>> \o
       [i \in 1..Len(d.body) |-> PestDocumentElementTree(d.body[i])] \o
       <<Leaf("EOI", "", "")>>)

(***************************************************************************)
(* Comments and syntax errors in the concrete trees.  A comment is a child *)
(* of the node whose tokens surround it; the place it is put at gives it   *)
(* its row, so rows ascend in source order and no two comments share one.  *)
(* tree-sitter recovers from a syntax error by an ERROR node in the tree;  *)
(* pest fails the parse instead.                                           *)
(***************************************************************************)
TsComment(row) ==
    [kind |-> "comment", field |-> "", flag |-> "extra", row |-> row, text |-> "#c",
     atom |-> TRUE, kids |-> <<>>]

PestComment(row) ==
    [kind |-> "COMMENT", field |-> "", flag |-> "ok", row |-> row, text |-> "#c",
     atom |-> TRUE, kids |-> <<>>]

TsError ==
    [kind |-> "ERROR", field |-> "", flag |-> "error", row |-> 0, text |-> "",
     atom |-> TRUE, kids |-> <<>>]

\* The subsets of S of at most k elements.
RECURSIVE SubsetsUpTo(_, _)
SubsetsUpTo(S, k) ==
    IF k = 0 THEN {{}}
    ELSE LET P == SubsetsUpTo(S, k - 1) IN P \cup {p \cup {x} : p \in P, x \in S}

\* What is put where: a function from the chosen places (indices into the
\* slots of the tree, out of the set P) to "comment" or "ERROR", for at most
\* maxInserted places of which at most maxErrors hold an ERROR.
Placements(P, maxInserted, maxErrors) ==
    UNION {{[s \in S |-> IF s \in E THEN "ERROR" ELSE "comment"] :
                E \in {E \in SubsetsUpTo(S, maxErrors) : Cardinality(E) <= maxErrors}} :
           S \in SubsetsUpTo(P, maxInserted)}

\* The places of a tree-sitter tree an extra node is found at.  A reduction
\* leaves the extras in front of the first token of a node and those behind
\* its last token to the parent, so inside a node they lie between two
\* children; the root takes the ones in front of and behind the document.
TsPlaces(t, slots) ==
    {i \in 1..Len(slots) :
        \/ slots[i].path = <<>>
        \/ 1 < slots[i].idx /\ slots[i].idx <= Len(NodeAt(t, slots[i].path).kids)}

\* The tree t with the nodes of the placement f put in, last place first so
\* that the paths of the earlier places stay what they were.
RECURSIVE Place(_, _, _, _)
Place(t, slots, f, b) ==
    IF DOMAIN f = {} THEN t
    ELSE LET s == CHOOSE x \in DOMAIN f : \A y \in DOMAIN f : y <= x
             n == IF f[s] = "ERROR" THEN TsError
                  ELSE IF b = "pest" THEN PestComment(s) ELSE TsComment(s)
         IN  Place(InsertAt(t, slots[s].path, slots[s].idx, n), slots,
                   [x \in DOMAIN f \ {s} |-> f[x]], b)

(***************************************************************************)
(* tree_sitter::TreeCursor, the part the iterator uses.  The cursor is the *)
(* path of its node.                                                       *)
(***************************************************************************)
CanGotoFirstChild(t, c) == Len(NodeAt(t, c).kids) > 0
FirstChild(c) == Append(c, 1)

CanGotoNextSibling(t, c) ==
    /\ c # <<>>
    /\ c[Len(c)] < Len(NodeAt(t, SubSeq(c, 1, Len(c) - 1)).kids)
NextSibling(c) == [c EXCEPT ![Len(c)] = @ + 1]

CanGotoParent(c) == c # <<>>
Parent(c) == SubSeq(c, 1, Len(c) - 1)

\* ModelError::parser
ParserError == [kind |-> "Grammar"]

(***************************************************************************)
(* The machine the cursors act on: the tree-sitter cursor, the shared      *)
(* comment container, whether its contents were taken, and the histories.  *)
(***************************************************************************)
\* add_comment (tree-sitter) and the COMMENT arm of get_next_pair (pest):
\* the machine after try_insert, and the Result.
AddComment(m, path, key, comment) ==
    LET r == TryInsert(m.comments, key, comment)
    IN  [m |-> [m EXCEPT !.comments = r.map,
                         !.attempts = Append(@, [node |-> path, key |-> key,
                                                 comment |-> comment,
                                                 ok |-> r.result = Ok,
                                                 taken |-> m.taken])],
         res |-> r.result]

\* TSCursorExt::get_next, mutated: a comment is returned like any other node.
GetNextReturnsComments(t, m) ==
    IF NodeAt(t, m.cursor).flag \in {"error", "missing"}
    THEN [m |-> m, res |-> Err(ParserError)]
    ELSE [m |-> m, res |-> Some([node |-> m.cursor, field |-> NodeAt(t, m.cursor).field])]

\* TSCursorExt::get_next; CommentAdded is what follows add_comment with the
\* outcome a, GetNextAt the body of the loop for the node of the cursor.
RECURSIVE GetNext(_, _)
RECURSIVE GetNextAt(_, _, _)
RECURSIVE CommentAdded(_, _)
CommentAdded(t, a) ==
    IF a.res # Ok THEN a
    ELSE IF ~CanGotoNextSibling(t, a.m.cursor) THEN [m |-> a.m, res |-> None]
    ELSE GetNext(t, [a.m EXCEPT !.cursor = NextSibling(@)])
GetNextAt(t, m, node) ==
    IF node.flag \in {"error", "missing"} THEN [m |-> m, res |-> Err(ParserError)]
    ELSE IF node.kind = "comment"
    THEN CommentAdded(t, AddComment(m, m.cursor, node.row, Anchor(node.text, TsSpan(node))))
    ELSE IF node.flag = "extra" THEN [m |-> m, res |-> Err(ParserError)]
    ELSE [m |-> m, res |-> Some([node |-> m.cursor, field |-> node.field])]
GetNext(t, m) == GetNextAt(t, m, NodeAt(t, m.cursor))

\* BlockEnds::get_open
GetOpen(symbol) ==
    CASE symbol = "{" -> "Braces"
      [] symbol = "[" -> "Brackets"
      [] symbol = "(" -> "Parens"
      [] symbol = "\"" -> "DoubleQuotes"
      [] symbol = "'" -> "SingleQuotes"
      [] OTHER -> "None"

\* BlockEnds::get_close
GetClose(symbol) ==
    CASE symbol = "}" -> "Braces"
      [] symbol = "]" -> "Brackets"
      [] symbol = ")" -> "Parens"
      [] symbol = "\"" -> "DoubleQuotes"
      [] symbol = "'" -> "SingleQuotes"
      [] OTHER -> "None"

\* BlockDelim::get
BlockDelimGet(symbol) ==
    CASE symbol = "," -> "Comma"
      [] symbol = "." -> "Dot"
      [] OTHER -> "None"

\* TSNodeIterator::from_children
FromChildren(parent_id, ends, delim) ==
    [state |-> "Enter", parent_id |-> parent_id, ends |-> ends, delim |-> delim]

\* TSNodeIterator::advance: the iterator and the machine afterwards and what
\* is returned, Some([node, field]), None, an Err, or a Panic of the
\* assert_eq.  An Err leaves the state as it was.  The arms that call
\* get_next are AdvanceOpen, AdvanceItem and AdvanceExhaust, which take the
\* outcome g of get_next.
RECURSIVE Advance(_, _, _)
RECURSIVE AdvanceFrom(_, _, _)
RECURSIVE AdvanceOpen(_, _, _)
RECURSIVE AdvanceItem(_, _, _)
RECURSIVE AdvanceExhaust(_, _, _)

\* The arm of State::Open: actual is get_open of the node, ends what
\* self.ends is after the match.
AdvanceOpened(t, it, g, actual, ends) ==
    IF ends # actual THEN [it |-> it, m |-> g.m, res |-> Err(ParserError)]
    ELSE IF ~CanGotoNextSibling(t, g.m.cursor)
    THEN [it |-> [it EXCEPT !.ends = ends], m |-> g.m, res |-> Err(ParserError)]
    ELSE Advance(t, [it EXCEPT !.ends = ends, !.state = "Item"],
                 [g.m EXCEPT !.cursor = NextSibling(@)])

AdvanceOpen(t, it, g) ==
    IF g.res.kind = "Err" THEN [it |-> it, m |-> g.m, res |-> g.res]
    ELSE IF g.res.kind = "None" THEN Advance(t, [it EXCEPT !.state = "Exit"], g.m)
    ELSE AdvanceOpened(t, it, g, GetOpen(NodeAt(t, g.res.value.node).kind),
            IF it.ends = "Quotes"
               /\ GetOpen(NodeAt(t, g.res.value.node).kind) \in {"SingleQuotes", "DoubleQuotes"}
            THEN GetOpen(NodeAt(t, g.res.value.node).kind) ELSE it.ends)

\* The arm of State::Item | State::Delim.
AdvanceItem(t, it, g) ==
    IF g.res.kind = "Err" THEN [it |-> it, m |-> g.m, res |-> g.res]
    ELSE IF g.res.kind = "None"
    THEN IF it.ends # "None" THEN [it |-> it, m |-> g.m, res |-> Err(ParserError)]
         ELSE Advance(t, [it EXCEPT !.state = "Exit"], g.m)
    ELSE IF it.ends # "None" /\ it.ends = GetClose(NodeAt(t, g.res.value.node).kind)
    THEN IF CanGotoNextSibling(t, g.m.cursor)
         THEN Advance(t, [it EXCEPT !.state = "Exhaust"],
                      [g.m EXCEPT !.cursor = NextSibling(@)])
         ELSE Advance(t, [it EXCEPT !.state = "Exit"], g.m)
    ELSE IF it.state = "Delim"
    THEN IF it.delim # BlockDelimGet(NodeAt(t, g.res.value.node).kind)
         THEN [it |-> it, m |-> g.m, res |-> Err(ParserError)]
         ELSE Advance(t, [it EXCEPT !.state = "NextItem"], g.m)
    ELSE [it |-> [it EXCEPT !.state = IF it.delim # "None" THEN "NextDelim" ELSE "NextItem"],
          m |-> [g.m EXCEPT !.yielded = Append(@, g.res.value.node)],
          res |-> g.res]

\* The arm of State::Exhaust.
AdvanceExhaust(t, it, g) ==
    IF g.res.kind = "Err" THEN [it |-> it, m |-> g.m, res |-> g.res]
    ELSE IF g.res.kind = "Some" THEN [it |-> it, m |-> g.m, res |-> Err(ParserError)]
    ELSE Advance(t, [it EXCEPT !.state = "Exit"], g.m)

\* TSNodeIterator::advance, mutated: State::Exit checks the parent and
\* leaves the cursor on the last child.
AdvanceStaysBelow(t, it, m) ==
    CASE it.state = "Enter" ->
            IF CanGotoFirstChild(t, m.cursor)
            THEN Advance(t, [it EXCEPT !.state = IF it.ends = "None" THEN "Item" ELSE "Open"],
                         [m EXCEPT !.cursor = FirstChild(@)])
            ELSE IF m.cursor # it.parent_id THEN [it |-> it, m |-> m, res |-> Panic]
            ELSE Advance(t, [it EXCEPT !.state = "Done"], m)
      [] it.state = "Open" -> AdvanceOpen(t, it, GetNext(t, m))
      [] it.state \in {"Item", "Delim"} -> AdvanceItem(t, it, GetNext(t, m))
      [] it.state \in {"NextItem", "NextDelim"} ->
            IF CanGotoNextSibling(t, m.cursor)
            THEN Advance(t, [it EXCEPT !.state =
                                IF it.state = "NextDelim" THEN "Delim" ELSE "Item"],
                         [m EXCEPT !.cursor = NextSibling(@)])
            ELSE IF it.ends # "None" THEN [it |-> it, m |-> m, res |-> Err(ParserError)]
            ELSE Advance(t, [it EXCEPT !.state = "Exit"], m)
      [] it.state = "Exhaust" -> AdvanceExhaust(t, it, GetNext(t, m))
      [] it.state = "Exit" ->
            IF CanGotoNextSibling(t, m.cursor)
            THEN [it |-> it, m |-> [m EXCEPT !.cursor = NextSibling(@)],
                  res |-> Err(ParserError)]
            ELSE IF ~CanGotoParent(m.cursor)
            THEN [it |-> it, m |-> m, res |-> Err(ParserError)]
            ELSE IF Parent(m.cursor) # it.parent_id
            THEN [it |-> it, m |-> [m EXCEPT !.cursor = Parent(@)],
                  res |-> Err(ParserError)]
            ELSE Advance(t, [it EXCEPT !.state = "Done"], m)
      [] it.state = "Done" -> [it |-> it, m |-> m, res |-> None]

AdvanceFrom(t, it, m) ==
    CASE it.state = "Enter" ->
            IF CanGotoFirstChild(t, m.cursor)
            THEN Advance(t, [it EXCEPT !.state = IF it.ends = "None" THEN "Item" ELSE "Open"],
                         [m EXCEPT !.cursor = FirstChild(@)])
            ELSE IF m.cursor # it.parent_id THEN [it |-> it, m |-> m, res |-> Panic]
            ELSE Advance(t, [it EXCEPT !.state = "Done"], m)
      [] it.state = "Open" -> AdvanceOpen(t, it, GetNext(t, m))
      [] it.state \in {"Item", "Delim"} -> AdvanceItem(t, it, GetNext(t, m))
      [] it.state \in {"NextItem", "NextDelim"} ->
            IF CanGotoNextSibling(t, m.cursor)
            THEN Advance(t, [it EXCEPT !.state =
                                IF it.state = "NextDelim" THEN "Delim" ELSE "Item"],
                         [m EXCEPT !.cursor = NextSibling(@)])
            ELSE IF it.ends # "None" THEN [it |-> it, m |-> m, res |-> Err(ParserError)]
            ELSE Advance(t, [it EXCEPT !.state = "Exit"], m)
      [] it.state = "Exhaust" -> AdvanceExhaust(t, it, GetNext(t, m))
      [] it.state = "Exit" ->
            IF CanGotoNextSibling(t, m.cursor)
            THEN [it |-> it, m |-> [m EXCEPT !.cursor = NextSibling(@)],
                  res |-> Err(ParserError)]
            ELSE IF ~CanGotoParent(m.cursor)
            THEN [it |-> it, m |-> m, res |-> Err(ParserError)]
            ELSE IF Parent(m.cursor) # it.parent_id
            THEN [it |-> it, m |-> [m EXCEPT !.cursor = Parent(@)],
                  res |-> Err(ParserError)]
            ELSE Advance(t, [it EXCEPT !.state = "Done"], [m EXCEPT !.cursor = Parent(@)])
      [] it.state = "Done" -> [it |-> it, m |-> m, res |-> None]

\* Where the shared cursor is to stand when advance is called: on the node
\* the iterator was made for before its first child was taken and after the
\* last, and on one of that node's children in between.
Nested(it, cur) ==
    CASE it.state \in {"Enter", "Done"} -> cur = it.parent_id
      [] it.state \in {"NextItem", "NextDelim"} ->
            cur # <<>> /\ Parent(cur) = it.parent_id
      [] OTHER -> TRUE

\* The machine with a call of advance noted in its trace when the cursor
\* does not stand there.
Observed(it, m) ==
    IF Nested(it, m.cursor) THEN m ELSE [m EXCEPT !.trace = Append(@, "unnested")]

\* TSNodeIterator::advance, the call noted.
Advance(t, it, m) == AdvanceFrom(t, it, Observed(it, m))

\* TSNodeIterator::drain(false): the iterator and the machine afterwards and
\* the Result; Drained takes the outcome a of advance.
RECURSIVE Drain(_, _, _)
RECURSIVE Drained(_, _)
Drained(t, a) ==
    IF a.res.kind = "Some" THEN Drain(t, a.it, a.m)
    ELSE IF a.res.kind = "None" THEN [it |-> a.it, m |-> a.m, res |-> Ok]
    ELSE a
Drain(t, it, m) == Drained(t, Advance(t, it, m))

\* unwrap of the Result d of drain.
Unwrap(d) == [m |-> d.m, panic |-> d.res # Ok]

\* Drop for TSNodeIterator: drain(false).unwrap().
TsDrop(t, it, m) == Unwrap(Drain(t, it, m))

(***************************************************************************)
(* PestNodes: the pairs of a node, the position of the next one, and       *)
(* whether the iterator was moved out of its variable.                     *)
(***************************************************************************)
\* PestNode::into_inner
IntoInner(path) == [parent |-> path, pos |-> 1, moved |-> FALSE]

\* PestNodes::get_next_pair; PestPair is the body of the loop for the pair
\* at path, it1 the iterator after pairs.next(), and PestCommentAdded what
\* follows try_insert with the outcome a.
RECURSIVE PestGetNextPair(_, _, _)
RECURSIVE PestPair(_, _, _, _, _)
RECURSIVE PestCommentAdded(_, _, _)
PestCommentAdded(t, it1, a) ==
    IF a.res # Ok THEN [it |-> it1, m |-> a.m, res |-> a.res]
    ELSE PestGetNextPair(t, it1, a.m)
PestPair(t, it1, m, pair, path) ==
    IF pair.kind = "COMMENT"
    THEN PestCommentAdded(t, it1,
            AddComment(m, path, PestSpan(pair).start.line, Anchor(pair.text, PestSpan(pair))))
    ELSE IF pair.kind = "EOI" THEN PestGetNextPair(t, it1, m)
    ELSE [it |-> it1, m |-> [m EXCEPT !.yielded = Append(@, path)],
          res |-> Some([node |-> path, field |-> ""])]
\* PestNodes::get_next_pair, mutated: the pairs are read from the last one.
PestGetNextPairBack(t, it, m) ==
    IF it.pos > Len(NodeAt(t, it.parent).kids) THEN [it |-> it, m |-> m, res |-> None]
    ELSE PestPair(t, [it EXCEPT !.pos = @ + 1], m,
                  NodeAt(t, it.parent).kids[Len(NodeAt(t, it.parent).kids) + 1 - it.pos],
                  Append(it.parent, Len(NodeAt(t, it.parent).kids) + 1 - it.pos))
PestGetNextPair(t, it, m) ==
    IF it.pos > Len(NodeAt(t, it.parent).kids) THEN [it |-> it, m |-> m, res |-> None]
    ELSE PestPair(t, [it EXCEPT !.pos = @ + 1], m, NodeAt(t, it.parent).kids[it.pos],
                  Append(it.parent, it.pos))

\* Drop for PestNodes: the loop over get_next_pair that an Err breaks;
\* PestDropped takes the outcome g of get_next_pair.
RECURSIVE PestDrop(_, _, _)
RECURSIVE PestDropped(_, _)
PestDropped(t, g) ==
    IF g.res.kind = "Some" THEN PestDrop(t, g.it, g.m) ELSE [m |-> g.m, panic |-> FALSE]
PestDrop(t, it, m) == PestDropped(t, PestGetNextPair(t, it, m))

(***************************************************************************)
(* The lowering rules (TryFrom<TSNode> and TryFrom<PestNode>), each given  *)
(* by what it does with the node it is handed:                             *)
(*   str       the text of the node;                                       *)
(*   node      the node itself, kept to be lowered later;                  *)
(*   from_str  VersionIdentifier::from_str of the text;                    *)
(*   type      a primitive Type by the kind or the text of the node;       *)
(*   match     the rule selected by the kind of the node, or an error;     *)
(*   collect   an iterator over the children that lowers every node it     *)
(*             returns with the item rule, and is dropped;                 *)
(*   seq       an iterator over the children, the steps made with it, the  *)
(*             element built from their values, and the drop at the end    *)
(*             of the scope, which is reached on an early return as well.  *)
(* A match lists the arms for the kinds that the trees of this model hold; *)
(* the other arms of the source lower kinds that no tree here contains.    *)
(***************************************************************************)
SkipTerminal(kind) == [op |-> "skip_terminal", kind |-> kind]
NextField(name, rule) == [op |-> "next_field", name |-> name, rule |-> rule]
GetNextField(name, rule) == [op |-> "get_next_field", name |-> name, rule |-> rule]
NextNode(rule) == [op |-> "next_node", rule |-> rule]
CollectAnchors(item) == [op |-> "collect_anchors", item |-> item]
LowerKept(i, rule) == [op |-> "try_into", from |-> i, rule |-> rule]
NoneOr(kind) == [op |-> "none_or", kind |-> kind]
Take == [op |-> "take"]
Validate == [op |-> "validate"]

Children(steps, build) ==
    [t |-> "seq", ends |-> "None", delim |-> "None", steps |-> steps, build |-> build]
Collect(ends, delim, item) ==
    [t |-> "collect", ends |-> ends, delim |-> delim, item |-> item]
Match(arms) == [t |-> "match", arms |-> arms]
Element(kind, name, body) == [kind |-> kind, name |-> name, body |-> body]

\* tree_sitter/document.rs
TsVersion ==
    Children(<<SkipTerminal("version"), NextField("identifier", "VersionIdentifier")>>,
             Element("version", 2, 0))
TsStruct ==
    Children(<<SkipTerminal("struct"), NextField("name", "String"),
               NextField("fields", "StructFields")>>, Element("struct", 2, 3))
TsStructFields == Collect("Braces", "None", "UnboundDeclaration")
TsDocumentElement == Match([struct |-> "Struct", task |-> "Task", workflow |-> "Workflow"])
TsDocument ==
    Children(<<NextField("version", "Version"), NextField("body", "DocumentBody"),
               Take, Validate>>, Element("document", 1, 2))
TsDocumentBody == Collect("None", "None", "DocumentElement")
TsAlias ==
    Children(<<SkipTerminal("alias"), NextField("from", "String"), SkipTerminal("as"),
               NextField("to", "String")>>, Element("alias", 2, 0))
TsImportAliases == Collect("None", "None", "Alias")
TsUriString == Collect("Quotes", "None", "String")

\* tree_sitter/declarations.rs
TsType == [t |-> "type", by |-> "kind", types |-> {"boolean_type", "int_type", "float_type",
                                                  "string_type", "file_type", "object_type"}]
TsUnboundDeclaration ==
    Children(<<NextField("type", "Type"), NextField("name", "String")>>,
             Element("declaration", 2, 0))
TsInputDeclaration == Match([unbound_declaration |-> "UnboundDeclaration"])
TsInput ==
    Children(<<SkipTerminal("input"), NextField("declarations", "InputDeclarations")>>,
             Element("input", 0, 2))
TsInputDeclarations == Collect("Braces", "None", "InputDeclaration")

\* tree_sitter/task.rs
TsCommand ==
    Children(<<SkipTerminal("command"), NextNode("String"),
               GetNextField("parts", "CommandParts")>>, Element("command", 0, 0))
TsCommandParts == Collect("None", "None", "StringPart")
TsStringPart == Match([content |-> "String", escape_sequence |-> "String"])
TsTaskElement == Match([input |-> "Input", command |-> "Command"])
TsTask ==
    Children(<<SkipTerminal("task"), NextField("name", "String"),
               NextField("body", "TaskBody")>>, Element("task", 2, 3))
TsTaskBody == Collect("Braces", "None", "TaskElement")

\* tree_sitter/workflow.rs
TsWorkflowElement == Match([input |-> "Input"])
TsWorkflow ==
    Children(<<SkipTerminal("workflow"), NextField("name", "String"),
               NextField("body", "WorkflowBody")>>, Element("workflow", 2, 3))
TsWorkflowBody == Collect("Braces", "None", "WorkflowElement")

TsRules ==
    [String |-> [t |-> "str"], VersionIdentifier |-> [t |-> "from_str"],
     Version |-> TsVersion, Struct |-> TsStruct, StructFields |-> TsStructFields,
     DocumentElement |-> TsDocumentElement, Document |-> TsDocument,
     DocumentBody |-> TsDocumentBody, Type |-> TsType,
     UnboundDeclaration |-> TsUnboundDeclaration, InputDeclaration |-> TsInputDeclaration,
     Input |-> TsInput, InputDeclarations |-> TsInputDeclarations, Command |-> TsCommand,
     CommandParts |-> TsCommandParts, StringPart |-> TsStringPart,
     TaskElement |-> TsTaskElement, Task |-> TsTask, TaskBody |-> TsTaskBody,
     WorkflowElement |-> TsWorkflowElement, Workflow |-> TsWorkflow,
     WorkflowBody |-> TsWorkflowBody, Alias |-> TsAlias,
     ImportAliases |-> TsImportAliases, UriString |-> TsUriString]

\* pest/document.rs
PestVersion == Children(<<NextNode("VersionIdentifier")>>, Element("version", 1, 0))
PestStruct ==
    Children(<<NextNode("String"), CollectAnchors("UnboundDeclaration")>>,
             Element("struct", 1, 2))
PestDocumentElement ==
    Match([structdef |-> "Struct", task |-> "Task", workflow |-> "Workflow"])
PestDocument ==
    Children(<<NextNode("Version"), CollectAnchors("DocumentElement"), Take>>,
             Element("document", 1, 2))

\* pest/declarations.rs
PestType == [t |-> "type", by |-> "text",
             types |-> {"Boolean", "Int", "Float", "String", "File", "Object"}]
PestTypeAnchor ==
    Children(<<NextNode("Node"), NoneOr("optional"), LowerKept(1, "Type")>>,
             Element("type", 0, 0))
PestUnboundDeclaration ==
    Children(<<NextNode("TypeAnchor"), NextNode("String")>>, Element("declaration", 2, 0))
PestInputDeclaration == Match([unbound_declaration |-> "UnboundDeclaration"])
PestInput == Children(<<CollectAnchors("InputDeclaration")>>, Element("input", 0, 1))

\* pest/task.rs
PestCommand == Children(<<CollectAnchors("StringPart")>>, Element("command", 0, 0))
PestStringPart ==
    Match([command_heredoc_literal |-> "String",
           command_heredoc_escape_sequence |-> "String"])
PestTaskElement == Match([input |-> "Input", command_heredoc |-> "Command"])
PestTask ==
    Children(<<NextNode("String"), CollectAnchors("TaskElement")>>, Element("task", 1, 2))

\* pest/workflow.rs
PestWorkflowElement == Match([input |-> "Input"])
PestWorkflow ==
    Children(<<NextNode("String"), CollectAnchors("WorkflowElement")>>,
             Element("workflow", 1, 2))

PestRules ==
    [String |-> [t |-> "str"], Node |-> [t |-> "node"],
     VersionIdentifier |-> [t |-> "from_str"],
     Version |-> PestVersion, Struct |-> PestStruct,
     DocumentElement |-> PestDocumentElement, Document |-> PestDocument,
     Type |-> PestType, TypeAnchor |-> PestTypeAnchor,
     UnboundDeclaration |-> PestUnboundDeclaration,
     InputDeclaration |-> PestInputDeclaration, Input |-> PestInput,
     Command |-> PestCommand, StringPart |-> PestStringPart,
     TaskElement |-> PestTaskElement, Task |-> PestTask,
     WorkflowElement |-> PestWorkflowElement, Workflow |-> PestWorkflow]

RuleOf(b, name) == IF b = "pest" THEN PestRules[name] ELSE TsRules[name]

(***************************************************************************)
(* The lowering, run over a concrete tree.  Every operator gives the       *)
(* machine afterwards and a Result: Ok with a value, an Err, or a Panic,   *)
(* after which nothing more is run.                                        *)
(***************************************************************************)
Okv(v) == [kind |-> "Ok", value |-> v]

\* TSNode::into_children, TSNode::into_block and PestNode::into_inner.
NewIterator(b, path, ends, delim) ==
    IF b = "pest" THEN IntoInner(path) ELSE FromChildren(path, ends, delim)

\* Iterator::next of the two cursors.
NextOf(b, t, it, m) == IF b = "pest" THEN PestGetNextPair(t, it, m) ELSE Advance(t, it, m)

\* The drop of an iterator when its variable or temporary goes out of scope;
\* an iterator that was moved out of its variable is not dropped again.
DropOf(b, t, it, m) ==
    IF b = "pest"
    THEN IF it.moved THEN [m |-> m, panic |-> FALSE] ELSE PestDrop(t, it, m)
    ELSE TsDrop(t, it, m)

\* The element a rule builds from the values of its steps.
Build(build, vals) ==
    IF build.kind = "document"
    THEN [kind |-> "document", source |-> "Unknown", version |-> vals[1].name,
          body |-> vals[2], comments |-> vals[3]]
    ELSE [kind |-> build.kind,
          name |-> IF build.name = 0 THEN "" ELSE vals[build.name],
          body |-> IF build.body = 0 THEN <<>>
                   ELSE [i \in 1..Len(vals[build.body]) |-> vals[build.body][i].kind]]

RECURSIVE Lower(_, _, _, _, _)
RECURSIVE RunSteps(_, _, _, _, _, _, _)
RECURSIVE DoStep(_, _, _, _, _, _)
RECURSIVE CollectItems(_, _, _, _, _, _)

\* The outcome of a step made with the iterator it: the iterator goes with
\* the machine and the Result l of a rule.
WithIterator(it, l) == [it |-> it, m |-> l.m, res |-> l.res]

\* collect_anchors: Iterator::map with try_into, collected into a Result.
\* Collected takes the outcome l of try_into of the node that next returned,
\* CollectNext the outcome a of next.
Collected(b, t, it, item, acc, l) ==
    IF l.res.kind = "Ok" THEN CollectItems(b, t, l.m, it, item, Append(acc, l.res.value))
    ELSE WithIterator(it, l)
CollectNext(b, t, item, acc, a) ==
    IF a.res.kind = "None" THEN [it |-> a.it, m |-> a.m, res |-> Okv(acc)]
    ELSE IF a.res.kind # "Some" THEN a
    ELSE Collected(b, t, a.it, item, acc, Lower(b, t, a.m, a.res.value.node, item))
CollectItems(b, t, m, it, item, acc) == CollectNext(b, t, item, acc, NextOf(b, t, it, m))

\* PestNodes::collect_anchors takes the iterator by value: it is dropped when
\* the collection c ends.
CollectedByValue(b, t, c) ==
    IF c.res.kind = "Panic" THEN c
    ELSE [it |-> [c.it EXCEPT !.moved = TRUE], m |-> DropOf(b, t, c.it, c.m).m,
          res |-> c.res]

\* A statement that calls advance or next: skip_terminal, next_node,
\* next_field, get_next_field, and the match on next() of try_into_type_anchor;
\* a is the outcome of the call.
StepOn(b, t, step, a) ==
    IF a.res.kind \in {"Err", "Panic"} THEN a
    ELSE IF step.op = "none_or"
    THEN IF a.res.kind = "None" \/ NodeAt(t, a.res.value.node).kind = step.kind
         THEN [it |-> a.it, m |-> a.m, res |-> Okv(a.res.kind)]
         ELSE [it |-> a.it, m |-> a.m, res |-> Err(ParserError)]
    ELSE IF step.op = "skip_terminal"
    THEN IF /\ a.res.kind = "Some"
            /\ a.res.value.field = ""
            /\ NodeAt(t, a.res.value.node).kind = step.kind
         THEN [it |-> a.it, m |-> a.m, res |-> Okv("")]
         ELSE [it |-> a.it, m |-> a.m, res |-> Err(ParserError)]
    ELSE IF a.res.kind = "None"
    THEN [it |-> a.it, m |-> a.m,
          res |-> IF step.op = "get_next_field" THEN Okv("") ELSE Err(ParserError)]
    ELSE IF step.op \in {"next_field", "get_next_field"} /\ a.res.value.field # step.name
    THEN [it |-> a.it, m |-> a.m, res |-> Err(ParserError)]
    ELSE WithIterator(a.it, Lower(b, t, a.m, a.res.value.node, step.rule))

\* Document::validate called by the lowering, r its Result.
Validated(it, m, r) ==
    [it |-> it, m |-> [m EXCEPT !.trace = Append(@, "validate")],
     res |-> IF r = Ok THEN Okv("") ELSE Err(r)]

\* One statement of a rule.
DoStep(b, t, m, it, step, vals) ==
    IF step.op = "take"
    THEN [it |-> it,
          m |-> [m EXCEPT !.comments = <<>>, !.taken = TRUE, !.trace = Append(@, "take")],
          res |-> Okv(m.comments)]
    ELSE IF step.op = "validate" THEN Validated(it, m, DocumentValidate(vals[2]))
    ELSE IF step.op = "try_into"
    THEN WithIterator(it, Lower(b, t, m, vals[step.from], step.rule))
    ELSE IF step.op = "collect_anchors"
    THEN CollectedByValue(b, t, CollectItems(b, t, m, it, step.item, <<>>))
    ELSE StepOn(b, t, step, NextOf(b, t, it, m))

\* The statements of a rule from the i-th on; the ? of a statement returns
\* its Err at once.  Stepped takes the outcome s of the i-th statement.
Stepped(b, t, steps, i, vals, s) ==
    IF s.res.kind = "Ok"
    THEN RunSteps(b, t, s.m, s.it, steps, i + 1, Append(vals, s.res.value))
    ELSE s
RunSteps(b, t, m, it, steps, i, vals) ==
    IF i > Len(steps) THEN [it |-> it, m |-> m, res |-> Okv(vals)]
    ELSE Stepped(b, t, steps, i, vals, DoStep(b, t, m, it, steps[i], vals))

\* The end of a rule that made an iterator: r is the outcome of its
\* statements, d the outcome of the drop of the iterator.
Dropped(rule, r, d) ==
    IF d.panic THEN [m |-> d.m, res |-> Panic]
    ELSE IF r.res.kind = "Ok" /\ rule.t = "seq"
    THEN [m |-> d.m, res |-> Okv(Build(rule.build, r.res.value))]
    ELSE [m |-> d.m, res |-> r.res]
Finished(b, t, rule, r) ==
    IF r.res.kind = "Panic" THEN [m |-> r.m, res |-> Panic]
    ELSE Dropped(rule, r, DropOf(b, t, r.it, r.m))

\* TryFrom for the rule, applied to the node.
LowerNode(b, t, m, path, rule, node) ==
    CASE rule.t = "str" -> [m |-> m, res |-> Okv(node.text)]
      [] rule.t = "node" -> [m |-> m, res |-> Okv(path)]
      [] rule.t = "from_str" ->
            [m |-> m,
             res |-> IF node.text \in {"1.0", "1.1"} THEN Okv(node.text)
                     ELSE Err([kind |-> "Version"])]
      [] rule.t = "type" ->
            [m |-> m,
             res |-> IF (IF rule.by = "kind" THEN node.kind ELSE node.text) \in rule.types
                     THEN Okv(node.text) ELSE Err(ParserError)]
      [] rule.t = "match" ->
            IF node.kind \in DOMAIN rule.arms
            THEN Lower(b, t, m, path, rule.arms[node.kind])
            ELSE [m |-> m, res |-> Err(ParserError)]
      [] rule.t = "collect" ->
            Finished(b, t, rule,
                CollectItems(b, t, m, NewIterator(b, path, rule.ends, rule.delim),
                             rule.item, <<>>))
      [] rule.t = "seq" ->
            Finished(b, t, rule,
                RunSteps(b, t, m, NewIterator(b, path, rule.ends, rule.delim),
                         rule.steps, 1, <<>>))

\* TryFrom for the rule of the given name, applied to the node at path.
Lower(b, t, m, path, name) == LowerNode(b, t, m, path, RuleOf(b, name), NodeAt(t, path))

(***************************************************************************)
(* The facade: WdlParser::parse_text of the two backends, stage by stage.  *)
(***************************************************************************)
MaxInserted == 2
MaxErrors == 1

Backends == {"pest", "tree_sitter"}
Sources == {"File(a.wdl)", "Uri(b)"}

\* pest fails on a text that is not a document; tree-sitter gives no tree
\* when the parse is cancelled.
NoTree == [kind |-> "NoTree"]

\* The trees pest gives for the documents D: the documents with comments
\* put in.
PestTrees(D) ==
    UNION {LET t == PestTree(d)
               slots == Slots(t, <<>>)
           IN  {Place(t, slots, f, "pest") : f \in Placements(1..Len(slots), MaxInserted, 0)} :
           d \in D}

\* The trees tree-sitter gives for the documents D: the documents with
\* comments and ERROR nodes put in, and a tree whose root is no document.
TsTrees(D) ==
    UNION {LET t == TsTree(d)
               slots == Slots(t, <<>>)
           IN  {Place(t, slots, f, "tree_sitter") :
                    f \in Placements(TsPlaces(t, slots), MaxInserted, MaxErrors)} :
           d \in D}
    \cup {Branch("ERROR", "", <<>>)}

Trees(b) ==
    (IF b = "pest" THEN PestTrees(BaseDocuments) ELSE TsTrees(BaseDocuments)) \cup {NoTree}

\* A parser of either backend was constructed; nothing was parsed yet.
Init ==
    /\ InitValidators /\ InitComments
    /\ backend \in Backends
    /\ tree = None /\ source = None /\ pc = "idle"
    /\ cursor = <<>> /\ comments = <<>> /\ doc = None /\ result = None
    /\ trace = <<>> /\ attempts = <<>> /\ yielded = <<>>
    /\ file = "" /\ prev = None /\ calls = 0
    /\ input = None /\ both = None
    /\ arg = None /\ ret = None /\ iter = None

\* The error parse_text returns when the backend gives no tree: the `?` on
\* Self::parse converts the pest error as it is, ok_or(anyhow!(..)) makes an
\* error whose message names the source.
BackendError(b, src) ==
    IF b = "pest" THEN [kind |-> "pest::error::Error"]
    ELSE [kind |-> "Failed to parse WDL document", from |-> src]

\* parse_text is called: Self::parse(Rule::document, text)? and
\* parser.parse(text, None).ok_or(...)?
BackendParse ==
    /\ pc = "idle"
    /\ \E src \in Sources, t \in Trees(backend) :
        /\ source' = src
        /\ tree' = t
        /\ pc' = IF t = NoTree THEN "done" ELSE "parsed"
        /\ result' = IF t = NoTree THEN Err(BackendError(backend, src)) ELSE None
    /\ trace' = <<"parse">>
    /\ calls' = calls + 1
    /\ UNCHANGED <<valVars, cmVars, backend, cursor, comments, doc, attempts, yielded,
                   file, prev, eqVars, fnVars>>

\* NewComments, mutated: the container of the call before is used again.
NewCommentsKeepsContainer ==
    /\ pc = "parsed" /\ backend = "pest"
    /\ comments' = comments
    /\ trace' = Append(trace, "comments")
    /\ pc' = "ready"
    /\ UNCHANGED <<valVars, cmVars, callVars, eqVars, fnVars, backend, tree, source, cursor, doc,
                   result, attempts, yielded>>

\* pest: Rc::new(RefCell::new(Comments::new())) and the root PestNode.
NewComments ==
    /\ pc = "parsed" /\ backend = "pest"
    /\ comments' = <<>>
    /\ trace' = Append(trace, "comments")
    /\ pc' = "ready"
    /\ UNCHANGED <<valVars, cmVars, callVars, eqVars, fnVars, backend, tree, source, cursor, doc,
                   result, attempts, yielded>>

\* tree-sitter: the root TSNode with its cursor and comment container, and
\* the ensure! that the root is a document.
RootNode ==
    /\ pc = "parsed" /\ backend = "tree_sitter"
    /\ comments' = <<>>
    /\ cursor' = <<>>
    /\ trace' = Append(trace, "comments")
    /\ IF tree.kind = "document"
       THEN pc' = "ready" /\ UNCHANGED result
       ELSE pc' = "done" /\ result' = Err(ParserError)
    /\ UNCHANGED <<valVars, cmVars, callVars, eqVars, fnVars, backend, tree, source, doc,
                   attempts, yielded>>

\* let mut doc: Document = root.try_into()?, r the outcome of try_into.
Lowered(r) ==
    /\ cursor' = r.m.cursor
    /\ comments' = r.m.comments
    /\ attempts' = r.m.attempts
    /\ yielded' = r.m.yielded
    /\ trace' = r.m.trace
    /\ doc' = IF r.res.kind = "Ok" THEN r.res.value ELSE None
    /\ result' = IF r.res.kind = "Ok" THEN None ELSE r.res
    /\ pc' = IF r.res.kind = "Ok" THEN "lowered"
             ELSE IF r.res.kind = "Panic" THEN "panicked" ELSE "done"

LowerDocument ==
    /\ pc = "ready"
    /\ Lowered(Lower(backend, tree,
                     [cursor |-> cursor, comments |-> comments, taken |-> FALSE,
                      attempts |-> <<>>, yielded |-> <<>>,
                      trace |-> Append(trace, "lower")],
                     <<>>, "Document"))
    /\ UNCHANGED <<valVars, cmVars, callVars, eqVars, fnVars, backend, tree, source>>

\* doc.source = source
StampSource ==
    /\ pc = "lowered"
    /\ doc' = [doc EXCEPT !.source = source]
    /\ trace' = Append(trace, "stamp")
    /\ pc' = "stamped"
    /\ UNCHANGED <<valVars, cmVars, callVars, eqVars, fnVars, backend, tree, source, cursor,
                   comments, result, attempts, yielded>>

\* doc.validate()?; Ok(doc)
RunValidators ==
    /\ pc = "stamped"
    /\ result' = IF DocumentValidate(doc.body) = Ok THEN Okv(doc)
                 ELSE Err(DocumentValidate(doc.body))
    /\ trace' = Append(trace, "validate")
    /\ pc' = "done"
    /\ UNCHANGED <<valVars, cmVars, callVars, eqVars, fnVars, backend, tree, source, cursor,
                   comments, doc, attempts, yielded>>

\* The paths parse_file is called with, and DocumentSource::File(path).
Paths == {"a.wdl", "c.wdl"}
File(path) == IF path = "a.wdl" THEN "File(a.wdl)" ELSE "File(c.wdl)"

\* WdlParser::parse_file: fs::read_to_string(&path) fails and the error is
\* returned as IO(source), or it gives the text and parse_text(text, source)
\* is called with source = DocumentSource::File(path).
ParseFile ==
    /\ pc = "idle"
    /\ \E path \in Paths :
        /\ file' = path
        /\ \/ /\ result' = Err([kind |-> "IO", source |-> File(path)])
              /\ pc' = "done"
              /\ UNCHANGED <<tree, source, trace, calls>>
           \/ \E t \in Trees(backend) :
                /\ source' = File(path)
                /\ tree' = t
                /\ pc' = IF t = NoTree THEN "done" ELSE "parsed"
                /\ result' = IF t = NoTree THEN Err(BackendError(backend, File(path)))
                              ELSE None
                /\ trace' = <<"parse">>
                /\ calls' = calls + 1
    /\ UNCHANGED <<valVars, cmVars, backend, cursor, comments, doc, attempts, yielded,
                   prev, eqVars, fnVars>>

\* The number of parse_text calls made on one parser instance.
MaxCalls == 2

\* parse_text is called again on the same parser with the text of the call
\* before and any source: PestParser holds no state, and TreeSitterParser
\* parses with no old tree (parser.parse(text, None)), so the text gives the
\* tree it gave before.
ParseAgain ==
    /\ pc = "done" /\ calls < MaxCalls /\ tree # None
    /\ \E src \in Sources :
        /\ source' = src
        /\ pc' = IF tree = NoTree THEN "done" ELSE "parsed"
        /\ result' = IF tree = NoTree THEN Err(BackendError(backend, src)) ELSE None
    /\ prev' = [source |-> source, result |-> result]
    /\ trace' = <<"parse">>
    /\ calls' = calls + 1
    /\ doc' = None /\ attempts' = <<>> /\ yielded' = <<>>
    /\ UNCHANGED <<valVars, cmVars, backend, tree, cursor, comments, file, eqVars, fnVars>>

Next ==
    \/ BackendParse \/ NewComments \/ RootNode \/ LowerDocument \/ StampSource
    \/ RunValidators \/ ParseFile \/ ParseAgain

Spec == Init /\ [][Next]_vars

(***************************************************************************)
(* Trees in which two comments start on one line.  A comment of the        *)
(* grammars runs to the end of its line, so no text is known to give such  *)
(* a tree; the cursors are run on them to see what the code does when      *)
(* try_insert finds the line taken.                                        *)
(***************************************************************************)
\* The tree t with a comment at every place of S, all starting on one line.
RECURSIVE PlaceOnLine(_, _, _, _, _)
PlaceOnLine(t, slots, S, b, line) ==
    IF S = {} THEN t
    ELSE LET s == CHOOSE x \in S : \A y \in S : y <= x
         IN  PlaceOnLine(InsertAt(t, slots[s].path, slots[s].idx,
                                  IF b = "pest" THEN PestComment(line) ELSE TsComment(line)),
                         slots, S \ {s}, b, line)

SameLineTrees(b) ==
    UNION {LET t == IF b = "pest" THEN PestTree(d) ELSE TsTree(d)
               slots == Slots(t, <<>>)
               P == IF b = "pest" THEN 1..Len(slots) ELSE TsPlaces(t, slots)
           IN  {PlaceOnLine(t, slots, {ij[1], ij[2]}, b, ij[1]) :
                    ij \in {x \in P \X P : x[1] < x[2]}} :
           d \in BaseDocuments}

\* parse_text is called on a text whose tree holds two comments on one line.
BackendParseSameLine ==
    /\ pc = "idle"
    /\ \E src \in Sources, t \in SameLineTrees(backend) :
        /\ source' = src
        /\ tree' = t
    /\ pc' = "parsed"
    /\ result' = None
    /\ trace' = <<"parse">>
    /\ calls' = calls + 1
    /\ UNCHANGED <<valVars, cmVars, backend, cursor, comments, doc, attempts, yielded,
                   file, prev, eqVars, fnVars>>

NextSameLine ==
    \/ BackendParseSameLine
    \/ NewComments \/ RootNode \/ LowerDocument \/ StampSource \/ RunValidators

SpecSameLine == Init /\ [][NextSameLine]_vars

(***************************************************************************)
(* One text given to both backends.  A text is a document with comments    *)
(* between its top-level parts: place 0 is in front of the version, place  *)
(* k behind the k-th part (the version is the first), the last place is    *)
(* behind the last element.  pest has these comments as pairs of the       *)
(* document pair; tree-sitter has the ones between two elements as         *)
(* children of the body and the others as children of the root.  The       *)
(* comment at place k starts on row k.                                     *)
(***************************************************************************)
MaxTextComments == 3

Texts ==
    UNION {{[doc |-> d, at |-> S] :
                S \in SubsetsUpTo(0..(Len(d.body) + 1), MaxTextComments)} :
           d \in BaseDocuments}

\* The tree backend b gives for the document tree t of n elements with
\* comments at the places S, the last place put in first.
RECURSIVE WithComments(_, _, _, _)
WithComments(t, b, n, S) ==
    IF S = {} THEN t
    ELSE LET s == CHOOSE x \in S : \A y \in S : y <= x
         IN  WithComments(
                IF b = "pest" THEN InsertAt(t, <<>>, s + 1, PestComment(s))
                ELSE IF s = n + 1 THEN InsertAt(t, <<>>, 3, TsComment(s))
                ELSE IF s >= 2 THEN InsertAt(t, <<2>>, s, TsComment(s))
                ELSE InsertAt(t, <<>>, s + 1, TsComment(s)),
                b, n, S \ {s})

TextTree(b, x) ==
    WithComments(IF b = "pest" THEN PestTree(x.doc) ELSE TsTree(x.doc), b,
                 Len(x.doc.body), x.at)

\* root.try_into() of backend b on the tree of the text x.
LowerText(b, x) ==
    Lower(b, TextTree(b, x),
          [cursor |-> <<>>, comments |-> <<>>, taken |-> FALSE, attempts |-> <<>>,
           yielded |-> <<>>, trace |-> <<>>],
          <<>>, "Document").res

InitEquiv ==
    /\ InitValidators /\ InitComments
    /\ backend = "" /\ tree = None /\ source = None /\ pc = "idle"
    /\ cursor = <<>> /\ comments = <<>> /\ doc = None /\ result = None
    /\ trace = <<>> /\ attempts = <<>> /\ yielded = <<>>
    /\ file = "" /\ prev = None /\ calls = 0
    /\ input \in Texts /\ both = None
    /\ arg = None /\ ret = None /\ iter = None

\* The text is lowered by the two backends.
LowerBoth ==
    /\ both = None
    /\ both' = [pest |-> LowerText("pest", input), tree_sitter |-> LowerText("tree_sitter", input)]
    /\ UNCHANGED <<valVars, cmVars, backend, tree, source, pc, cursor, comments, doc, result,
                   trace, attempts, yielded, callVars, input, fnVars>>

SpecEquiv == InitEquiv /\ [][LowerBoth]_vars

(***************************************************************************)
(* Position and Span (model.rs).  Positions are ordered by their offset.   *)
(* A subtraction of usize below zero panics in a build with overflow       *)
(* checks and wraps in one without: both outcomes are kept, the wrapped    *)
(* value 2^64 - k as Wrapped(k).                                           *)
(***************************************************************************)
MaxOffset == 3

Usize(n) == [kind |-> "usize", value |-> n]
Wrapped(k) == [kind |-> "usize", below |-> k]

\* Position::new, for the offsets up to the bound; the column of a
\* position is not above its offset.
Positions ==
    {p \in {Position(0, c, o) : c \in 0..MaxOffset, o \in 0..MaxOffset} : p.column <= p.offset}

\* Ord for Position
PositionLess(a, b) == a.offset < b.offset

\* Span::new
SpanNew(start, end) ==
    IF PositionLess(start, end) THEN [start |-> start, end |-> end] ELSE Panic

\* Span::from_range
SpanFromRange(left, right) == [start |-> left.start, end |-> right.end]

\* Span::from_components
SpanFromComponents(start_line, start_column, start_offset, end_line, end_column, end_offset) ==
    [start |-> Position(start_line, start_column, start_offset),
     end |-> Position(end_line, end_column, end_offset)]

\* Position::shift_left
ShiftLeft(p, n) ==
    IF p.column >= n /\ p.offset >= n
    THEN Position(p.line, p.column - n, p.offset - n)
    ELSE Panic

\* Span::trim_end
SpanTrimEnd(span, n) ==
    IF ShiftLeft(span.end, n) = Panic THEN Panic
    ELSE [span EXCEPT !.end = ShiftLeft(@, n)]

\* Span::len: the outcomes of self.end.offset - self.start.offset - 1.
SpanLen(span) ==
    IF span.end.offset - span.start.offset - 1 >= 0
    THEN {Usize(span.end.offset - span.start.offset - 1)}
    ELSE {Panic, Wrapped(span.start.offset - span.end.offset + 1)}

\* Into<Range<usize>> for Span, and the length of a Range<usize>
SpanIntoRange(span) == [start |-> span.start.offset, end |-> span.end.offset]
RangeLen(r) == IF r.end > r.start THEN r.end - r.start ELSE 0

\* The Spans Span::new returns, and the ones from_components can build.
Spans == {SpanNew(a, b) : a \in Positions, b \in Positions} \ {Panic}
AnySpans == {SpanFromRange([start |-> a, end |-> a], [start |-> b, end |-> b]) :
                a \in Positions, b \in Positions}

\* The calls of the functions of Span.
(***************************************************************************)
(* Namespaces of imports.  A string is the sequence of its characters.     *)
(***************************************************************************)
MaxSegments == 3

Wdl == <<".", "w", "d", "l">>

\* The path segments the URIs of the model are made of.
Segments ==
    {stem \o ext : stem \in {<<>>, <<"t">>, <<"t", "o">>}, ext \in {<<>>, Wdl}}

RECURSIVE UrisOf(_)
UrisOf(n) ==
    IF n = 1 THEN Segments
    ELSE {u \o <<"/">> \o s : u \in UrisOf(n - 1), s \in Segments}

Uris == UNION {UrisOf(n) : n \in 1..MaxSegments}

EndsWith(s, suffix) ==
    /\ Len(s) >= Len(suffix)
    /\ SubSeq(s, Len(s) - Len(suffix) + 1, Len(s)) = suffix

\* The regular expression ".*/(.+?)(?:\.wdl)?" of Namespace::from_uri, searched
\* in s.  ".*" is greedy, so it ends before the last '/' after which the rest
\* can match, that is, the last '/' with a character after it.
RegexSlashes(s) == {i \in 1..Len(s) : s[i] = "/" /\ i < Len(s)}

\* "(?:\.wdl)?" at position `at`: the pattern ends here without an anchor, and
\* the optional group matches the empty string, so the rest matches anywhere.
RegexRestMatches(s, at) == TRUE

\* "(.+?)" from position `from`: lazy, so the fewest characters (one at least)
\* after which the rest matches.
RegexLazyLen(s, from) ==
    CHOOSE k \in 1..(Len(s) - from + 1) :
        /\ RegexRestMatches(s, from + k)
        /\ \A j \in 1..(k - 1) : ~RegexRestMatches(s, from + j)

\* Regex::captures: whether there is a match, and its group 1.
RegexIsMatch(s) == RegexSlashes(s) # {}

RegexGroup1(s) ==
    LET slash == CHOOSE i \in RegexSlashes(s) : \A j \in RegexSlashes(s) : j <= i
    IN  SubSeq(s, slash + 1, slash + RegexLazyLen(s, slash + 1))

Implicit(ns) == [kind |-> "Implicit", name |-> ns]
Explicit(name) == [kind |-> "Explicit", name |-> name]

\* Namespace::from_uri.
FromUri(s) ==
    Implicit(IF RegexIsMatch(s) THEN RegexGroup1(s)
             ELSE IF EndsWith(s, Wdl) THEN SubSeq(s, 1, Len(s) - 4)
             ELSE s)

\* The pairs inside an import statement of the pest backend: the URI, the
\* namespace when the statement has "as name", and a COMMENT pair wherever a
\* comment stands between the two.
ImportPairs(uri, as, comment) ==
    <<[kind |-> "string", text |-> uri]>>
    \o (IF comment THEN <<[kind |-> "COMMENT", text |-> <<>>]>> ELSE <<>>)
    \o (IF as = <<>> THEN <<>> ELSE <<[kind |-> "namespace", text |-> as]>>)

\* PestNodes::peek_rule: the rule of the next pair, a COMMENT included.
PeekRule(pairs) == IF pairs = <<>> THEN "" ELSE Head(pairs).kind

\* Import::try_from of the pest backend, its namespace.  A pair left after the
\* namespace was decided is lowered as an alias, which a namespace pair is not.
PestImportNamespace(pairs) ==
    LET uri == Head(pairs).text
        inner == Tail(pairs)
    IN  IF PeekRule(inner) = "namespace" THEN Okv(Explicit(Head(inner).text))
        ELSE IF \E i \in 1..Len(inner) : inner[i].kind = "namespace"
             THEN Err("MissingNode")
             ELSE Okv(FromUri(uri))

\* Import::try_from of the tree-sitter backend, its namespace: the child after
\* the URI is the keyword "as" or not (the iterator steps over comments).
TsImportNamespace(uri, as) ==
    IF as # <<>> THEN Okv(Explicit(as)) ELSE Okv(FromUri(uri))

ImportNamespace(b, uri, as, comment) ==
    IF b = "pest" THEN PestImportNamespace(ImportPairs(uri, as, comment))
    ELSE TsImportNamespace(uri, as)

NamespaceCalls ==
    {[fn |-> "from_uri", uri |-> u] : u \in Uris}
    \cup {[fn |-> "import", backend |-> b, uri |-> u, as |-> a, comment |-> c] :
            b \in Backends, u \in UrisOf(2), a \in {<<>>, <<"t">>}, c \in BOOLEAN}

(***************************************************************************)
(* Integer literals.                                                       *)
(***************************************************************************)
MaxLexeme == 3

LexemeChars == {"0", "1", "7", "8", "a", "F", "x", "X", "-"}

RECURSIVE LexemesOf(_)
LexemesOf(n) ==
    IF n = 0 THEN {<<>>}
    ELSE {l \o <<c>> : l \in LexemesOf(n - 1), c \in LexemeChars}

Lexemes == UNION {LexemesOf(n) : n \in 0..MaxLexeme}

\* char::to_digit, for the characters of the model; -1 when c is no digit at all.
DigitValue(c) ==
    CASE c = "0" -> 0 [] c = "1" -> 1 [] c = "7" -> 7 [] c = "8" -> 8
      [] c = "a" -> 10 [] c = "F" -> 15 [] OTHER -> -1

IsDigit(c, radix) == DigitValue(c) >= 0 /\ DigitValue(c) < radix

RECURSIVE DigitsValue(_, _, _)
DigitsValue(digits, radix, acc) ==
    IF digits = <<>> THEN acc
    ELSE DigitsValue(Tail(digits), radix, acc * radix + DigitValue(Head(digits)))

\* i64::from_str_radix (and str::parse::<i64> with radix 10): an optional sign,
\* then one digit of the radix at least and nothing else.  The lexemes of the
\* model are too short for a value outside of i64.
FromStrRadix(s, radix) ==
    LET signed == s # <<>> /\ Head(s) \in {"-", "+"}
        digits == IF signed THEN Tail(s) ELSE s
    IN  IF digits = <<>> \/ \E i \in 1..Len(digits) : ~IsDigit(digits[i], radix)
        THEN Err("ParseIntError")
        ELSE Okv(IF signed /\ Head(s) = "-" THEN 0 - DigitsValue(digits, radix, 0)
                 ELSE DigitsValue(digits, radix, 0))

IntegerOf(tag, parsed, s) ==
    IF parsed.kind = "Ok" THEN Okv([tag |-> tag, value |-> parsed.value])
    ELSE Err([kind |-> "Integer", lexeme |-> s])

\* FromStr for Integer.
IntegerFromStr(s) ==
    IF Len(s) > 1 /\ s[1] = "0"
    THEN IF s[2] \in {"x", "X"}
         THEN IntegerOf("Hex", FromStrRadix(SubSeq(s, 3, Len(s)), 16), s)
         ELSE IF IsDigit(s[2], 8)
         THEN IntegerOf("Octal", FromStrRadix(SubSeq(s, 2, Len(s)), 8), s)
         ELSE Err([kind |-> "Grammar", what |-> "integer", value |-> s])
    ELSE IntegerOf("Decimal", FromStrRadix(s, 10), s)

IntegerCalls == {[fn |-> "integer_from_str", lexeme |-> l] : l \in Lexemes}

(***************************************************************************)
(* Calls.  A call site is `call T`, with `as U` or without, and with a     *)
(* brace block or without; the block lists its inputs after the keyword    *)
(* `input:` or without it.  A comment stands at one of the places inside   *)
(* the call where the tokens of the call surround it.  The lowering of a   *)
(* CallInput is reduced to its name.                                       *)
(***************************************************************************)
MaxCallInputs == 2

CallInputNames == <<"x", "y", "z">>

CallSites ==
    {s \in [alias : BOOLEAN, block : {"none", "keyword", "bare"}, inputs : 0..MaxCallInputs,
            comment : {"none", "after_target", "after_alias", "in_block"}] :
        /\ s.block = "none" => s.inputs = 0
        /\ s.comment = "after_target" => (s.alias \/ s.block # "none")
        /\ s.comment = "after_alias" => (s.alias /\ s.block # "none")
        /\ s.comment = "in_block" => s.block # "none"}

\* The names of the inputs the block of the call site lists.
SiteInputs(s) == SubSeq(CallInputNames, 1, s.inputs)

CommentAt(b, s, place) ==
    IF s.comment # place THEN <<>>
    ELSE IF b = "pest" THEN <<PestComment(1)>> ELSE <<TsComment(1)>>

RECURSIVE TsCallItems(_)
TsCallItems(names) ==
    IF names = <<>> THEN <<>>
    ELSE <<Leaf("call_input", "", Head(names))>>
         \o (IF Len(names) > 1 THEN <<Leaf(",", "", ",")>> ELSE <<>>)
         \o TsCallItems(Tail(names))

\* The tree-sitter node of a call.
TsCallTree(s) ==
    Branch("call", "",
       <<Leaf("call", "", "call"), Leaf("identifier", "target", "T")>>
       \o CommentAt("tree_sitter", s, "after_target")
       \o (IF s.alias
           THEN <<Branch("call_alias", "alias",
                     <<Leaf("as", "", "as"), Leaf("identifier", "name", "U")>>)>>
           ELSE <<>>)
       \o CommentAt("tree_sitter", s, "after_alias")
       \o (IF s.block = "none" THEN <<>>
           ELSE <<Branch("call_inputs", "inputs",
                     <<Leaf("{", "", "{")>>
                     \o CommentAt("tree_sitter", s, "in_block")
                     \o (IF s.block = "keyword"
                         THEN <<Leaf("input", "", "input"), Leaf(":", "", ":")>> ELSE <<>>)
                     \o TsCallItems(SiteInputs(s))
                     \o <<Leaf("}", "", "}")>>)>>))

\* The pest pair of a call: the keywords and the braces leave no pair.
PestCallTree(s) ==
    Branch("call", "",
       <<Leaf("qualified_identifier", "", "T")>>
       \o CommentAt("pest", s, "after_target")
       \o (IF s.alias
           THEN <<Branch("call_alias", "", <<Leaf("identifier", "", "U")>>)>> ELSE <<>>)
       \o CommentAt("pest", s, "after_alias")
       \o (IF s.block = "none" THEN <<>>
           ELSE <<Branch("call_inputs", "",
                     CommentAt("pest", s, "in_block")
                     \o [i \in 1..s.inputs |-> Leaf("call_input", "", CallInputNames[i])])>>))

CallOf(target, alias, inputs) == [target |-> target, alias |-> alias, inputs |-> inputs]

\* The machine a lowering starts with.
NewMachine ==
    [cursor |-> <<>>, comments |-> <<>>, taken |-> FALSE, attempts |-> <<>>,
     yielded |-> <<>>, trace |-> <<>>]

\* --- tree_sitter/workflow.rs, TryFrom<TSNode> for Call ---

\* The end of a scope: d is the outcome of the drop of its iterator.
TsDropThen(d, res) == [m |-> d.m, res |-> IF d.panic THEN Panic ELSE res]

\* A return of try_from, where `children` is dropped.
TsCallEnd(t, children, m, res) ==
    IF res = Panic THEN [m |-> m, res |-> Panic]
    ELSE TsDropThen(TsDrop(t, children, m), res)

\* A return from inside a scope with an iterator of its own, whose drop d
\* comes before that of `children`.
TsCallEndInner(t, children, d, res) ==
    IF d.panic \/ res = Panic THEN [m |-> d.m, res |-> Panic]
    ELSE TsCallEnd(t, children, d.m, res)

\* collect_anchors of the block; c is its outcome, after which the block
\* iterator is dropped.
TsCallCollected(t, children, target, alias, c) ==
    IF c.res.kind = "Panic" THEN [m |-> c.m, res |-> Panic]
    ELSE TsCallEndInner(t, children, TsDrop(t, c.it, c.m),
            IF c.res.kind = "Ok" THEN Okv(CallOf(target, alias, Some(c.res.value)))
            ELSE c.res)

\* set_delim(BlockDelim::Comma) and collect_anchors; s is the outcome of
\* skip_terminal(symbols::COLON).
TsCallColon(t, children, target, alias, s) ==
    IF s.res.kind = "Panic" THEN [m |-> s.m, res |-> Panic]
    ELSE IF s.res.kind # "Ok" THEN TsCallEndInner(t, children, TsDrop(t, s.it, s.m), s.res)
    ELSE IF s.it.state \notin {"NextItem", "NextDelim"}
    THEN TsCallEndInner(t, children, TsDrop(t, s.it, s.m), Err(ParserError))
    ELSE TsCallCollected(t, children, target, alias,
            CollectItems("tree_sitter", t, s.m, [s.it EXCEPT !.delim = "Comma"],
                         "String", <<>>))

\* skip_optional_last(keywords::INPUT), a the outcome of its advance: true
\* for the terminal `input`, false when the block has no node, an Err for
\* any other node.
TsCallBlockFirst(t, children, target, alias, a) ==
    IF a.res.kind = "Panic" THEN [m |-> a.m, res |-> Panic]
    ELSE IF a.res.kind = "Err" THEN TsCallEndInner(t, children, TsDrop(t, a.it, a.m), a.res)
    ELSE IF a.res.kind = "None"
    THEN TsCallEndInner(t, children, TsDrop(t, a.it, a.m),
                        Okv(CallOf(target, alias, Some(<<>>))))
    ELSE IF a.res.value.field = "" /\ NodeAt(t, a.res.value.node).kind = "input"
    THEN TsCallColon(t, children, target, alias,
            StepOn("tree_sitter", t, SkipTerminal(":"), Advance(t, a.it, a.m)))
    ELSE TsCallEndInner(t, children, TsDrop(t, a.it, a.m), Err(ParserError))

\* let inputs = match next: the block of the node at path, or no block.
TsCallInputs(t, children, m, target, alias, path) ==
    TsCallBlockFirst(t, children, target, alias,
        Advance(t, FromChildren(path, "Braces", "None"), m))

\* children.get_next_field(fields::INPUTS) after the alias; a is the outcome
\* of its advance.
TsCallAfterAlias(t, target, alias, a) ==
    IF a.res.kind \in {"Err", "Panic"} THEN TsCallEnd(t, a.it, a.m, a.res)
    ELSE IF a.res.kind = "None"
    THEN TsCallEnd(t, a.it, a.m, Okv(CallOf(target, alias, None)))
    ELSE IF a.res.value.field # "inputs" THEN TsCallEnd(t, a.it, a.m, Err(ParserError))
    ELSE TsCallInputs(t, a.it, a.m, target, alias, a.res.value.node)

\* drop(alias_children); d is its outcome.
TsCallAliasDropped(t, children, target, name, d) ==
    IF d.panic THEN [m |-> d.m, res |-> Panic]
    ELSE TsCallAfterAlias(t, target, Some(name), Advance(t, children, d.m))

\* The same, mutated: alias_children is not dropped before `children` is
\* advanced.
TsCallAliasNameKept(t, children, target, s) ==
    IF s.res.kind = "Panic" THEN [m |-> s.m, res |-> Panic]
    ELSE IF s.res.kind # "Ok" THEN TsCallEndInner(t, children, TsDrop(t, s.it, s.m), s.res)
    ELSE TsCallAfterAlias(t, target, Some(s.res.value), Advance(t, children, s.m))

\* alias_children.next_field(fields::NAME)?.try_into()?; s is its outcome.
TsCallAliasName(t, children, target, s) ==
    IF s.res.kind = "Panic" THEN [m |-> s.m, res |-> Panic]
    ELSE IF s.res.kind # "Ok" THEN TsCallEndInner(t, children, TsDrop(t, s.it, s.m), s.res)
    ELSE TsCallAliasDropped(t, children, target, s.res.value, TsDrop(t, s.it, s.m))

\* alias_children.skip_terminal(keywords::AS)?; s is its outcome.
TsCallAliasAs(t, children, target, s) ==
    IF s.res.kind = "Panic" THEN [m |-> s.m, res |-> Panic]
    ELSE IF s.res.kind # "Ok" THEN TsCallEndInner(t, children, TsDrop(t, s.it, s.m), s.res)
    ELSE TsCallAliasName(t, children, target,
            StepOn("tree_sitter", t, NextField("name", "String"), Advance(t, s.it, s.m)))

\* let next = children.next().transpose()? and the match on its field; a is
\* the outcome of next.
TsCallNext(t, target, a) ==
    IF a.res.kind \in {"Err", "Panic"} THEN TsCallEnd(t, a.it, a.m, a.res)
    ELSE IF a.res.kind = "None" \/ a.res.value.field = ""
    THEN TsCallEnd(t, a.it, a.m, Okv(CallOf(target, None, None)))
    ELSE IF a.res.value.field = "alias"
    THEN TsCallAliasAs(t, a.it, target,
            StepOn("tree_sitter", t, SkipTerminal("as"),
                   Advance(t, FromChildren(a.res.value.node, "None", "None"), a.m)))
    ELSE IF a.res.value.field = "inputs"
    THEN TsCallInputs(t, a.it, a.m, target, None, a.res.value.node)
    ELSE TsCallEnd(t, a.it, a.m, Err(ParserError))

\* children.next_field(fields::TARGET).try_into()?; s is its outcome.
TsCallTarget(t, s) ==
    IF s.res.kind # "Ok" THEN TsCallEnd(t, s.it, s.m, s.res)
    ELSE TsCallNext(t, s.res.value, Advance(t, s.it, s.m))

\* children.skip_terminal(keywords::CALL)?; s is its outcome.
TsCallKeyword(t, s) ==
    IF s.res.kind # "Ok" THEN TsCallEnd(t, s.it, s.m, s.res)
    ELSE TsCallTarget(t,
            StepOn("tree_sitter", t, NextField("target", "String"), Advance(t, s.it, s.m)))

TsCall(t, m) ==
    TsCallKeyword(t,
        StepOn("tree_sitter", t, SkipTerminal("call"),
               Advance(t, FromChildren(<<>>, "None", "None"), m)))

\* --- tree_sitter/document.rs, TryFrom<TSNode> for Import ---

MaxAliases == 2

\* An import statement: with or without `as name`, with 0..MaxAliases
\* aliases, and a comment in one of three places.
ImportSites ==
    {s \in [as : BOOLEAN, aliases : 0..MaxAliases,
            comment : {"none", "after_uri", "after_as", "in_aliases"}] :
        /\ s.comment = "after_as" => s.as
        /\ s.comment = "in_aliases" => s.aliases > 0}

ImportCommentAt(s, place) == IF s.comment = place THEN <<TsComment(1)>> ELSE <<>>

TsAliasTree ==
    Branch("import_alias", "",
       <<Leaf("alias", "", "alias"), Leaf("identifier", "from", "A"),
         Leaf("as", "", "as"), Leaf("identifier", "to", "B")>>)

\* The tree-sitter node of an import statement.
TsImportTree(s) ==
    Branch("import", "",
       <<Leaf("import", "", "import"),
         Branch("string", "uri",
            <<Leaf("\"", "", "\""), Leaf("content", "", <<"t">> \o Wdl),
              Leaf("\"", "", "\"")>>)>>
       \o ImportCommentAt(s, "after_uri")
       \o (IF s.as
           THEN <<Leaf("as", "", "as")>> \o ImportCommentAt(s, "after_as")
                \o <<Leaf("identifier", "namespace", "ns")>>
           ELSE <<>>)
       \o (IF s.aliases = 0 THEN <<>>
           ELSE <<Branch("import_aliases", "aliases",
                     ImportCommentAt(s, "in_aliases")
                     \o [i \in 1..s.aliases |-> TsAliasTree])>>))

ImportOf(uri, namespace, aliases) == [uri |-> uri, namespace |-> namespace, aliases |-> aliases]

\* Vec<&str>::join("")
RECURSIVE Join(_)
Join(parts) == IF parts = <<>> THEN <<>> ELSE Head(parts) \o Join(Tail(parts))

\* let aliases = next.map(..).transpose()?.unwrap_or_else(..), l the outcome
\* of node.into_children().collect_anchors().
TsImportAliasesLowered(t, children, uri, namespace, l) ==
    TsCallEnd(t, children, l.m,
        IF l.res.kind = "Ok" THEN Okv(ImportOf(uri, namespace, l.res.value)) ELSE l.res)

\* The node `next` after the namespace was decided; a is the outcome of the
\* next() that gave it.
TsImportNext(t, uri, namespace, a) ==
    IF a.res.kind \in {"Err", "Panic"} THEN TsCallEnd(t, a.it, a.m, a.res)
    ELSE IF a.res.kind = "None"
    THEN TsCallEnd(t, a.it, a.m, Okv(ImportOf(uri, namespace, <<>>)))
    ELSE IF a.res.value.field # "aliases" THEN TsCallEnd(t, a.it, a.m, Err(ParserError))
    ELSE TsImportAliasesLowered(t, a.it, uri, namespace,
            Lower("tree_sitter", t, a.m, a.res.value.node, "ImportAliases"))

\* children.next_field(fields::NAMESPACE)?.try_into()?, s its outcome, and
\* the second children.next().
TsImportNamespaced(t, uri, s) ==
    IF s.res.kind # "Ok" THEN TsCallEnd(t, s.it, s.m, s.res)
    ELSE TsImportNext(t, uri, Explicit(s.res.value), Advance(t, s.it, s.m))

\* let next = children.next().transpose()? and the match on it; a is the
\* outcome of next.
TsImportMatch(t, uri, a) ==
    IF a.res.kind = "Some" /\ NodeAt(t, a.res.value.node).kind = "as"
    THEN TsImportNamespaced(t, uri,
            StepOn("tree_sitter", t, NextField("namespace", "String"),
                   Advance(t, a.it, a.m)))
    ELSE TsImportNext(t, uri, FromUri(uri), a)

\* uri_string(children.next_field(fields::URI)?)?; s is its outcome.
TsImportUri(t, s) ==
    IF s.res.kind # "Ok" THEN TsCallEnd(t, s.it, s.m, s.res)
    ELSE TsImportMatch(t, Join(s.res.value), Advance(t, s.it, s.m))

\* children.skip_terminal(keywords::IMPORT)?; s is its outcome.
TsImportKeyword(t, s) ==
    IF s.res.kind # "Ok" THEN TsCallEnd(t, s.it, s.m, s.res)
    ELSE TsImportUri(t,
            StepOn("tree_sitter", t, NextField("uri", "UriString"), Advance(t, s.it, s.m)))

TsImport(t, m) ==
    TsImportKeyword(t,
        StepOn("tree_sitter", t, SkipTerminal("import"),
               Advance(t, FromChildren(<<>>, "None", "None"), m)))

\* --- pest/workflow.rs, TryFrom<PestNode> for Call ---

\* The pairs the iterator has not returned yet.
PestRemaining(t, it) ==
    SubSeq(NodeAt(t, it.parent).kids, it.pos, Len(NodeAt(t, it.parent).kids))

\* A return of try_from, where `inner` is dropped; d is the outcome.
PestCallEnd(d, res) == [m |-> d.m, res |-> res]

\* next_node of an iterator, g the outcome of get_next_pair: no pair left is
\* an Err.
PestNextNode(g) ==
    IF g.res.kind = "None" THEN [g EXCEPT !.res = Err(ParserError)] ELSE g

\* collect_anchors_with_inner_spans of the pairs of call_inputs; c is its
\* outcome, the iterator dropped with it.
PestCallCollected(t, inner, target, alias, c) ==
    PestCallEnd(PestDrop(t, inner, c.m),
        IF c.res.kind = "Ok" THEN Okv(CallOf(target, alias, Some(c.res.value)))
        ELSE c.res)

\* let inputs = if let Some(Rule::call_inputs) = inner.peek_rule()
PestCallInputs(t, inner, m, target, alias) ==
    IF PeekRule(PestRemaining(t, inner)) = "call_inputs"
    THEN PestCallCollected(t, [inner EXCEPT !.pos = @ + 1], target, alias,
            CollectedByValue("pest", t,
                CollectItems("pest", t, m, IntoInner(Append(inner.parent, inner.pos)),
                             "String", <<>>)))
    ELSE PestCallEnd(PestDrop(t, inner, m), Okv(CallOf(target, alias, None)))

\* alias_node.one_inner().try_into()?; g is the outcome of next_node of the
\* iterator over the pairs of call_alias, a temporary dropped by the end of
\* the statement with the outcome d.
PestCallAliasDropped(t, inner, target, g, d) ==
    IF g.res.kind = "Some"
    THEN PestCallInputs(t, inner, d.m, target, Some(NodeAt(t, g.res.value.node).text))
    ELSE PestCallEnd(PestDrop(t, inner, d.m), g.res)

PestCallAliasName(t, inner, target, g) ==
    PestCallAliasDropped(t, inner, target, g, PestDrop(t, g.it, g.m))

\* let alias = if let Some(Rule::call_alias) = inner.peek_rule()
PestCallAlias(t, inner, m, target) ==
    IF PeekRule(PestRemaining(t, inner)) = "call_alias"
    THEN PestCallAliasName(t, [inner EXCEPT !.pos = @ + 1], target,
            PestNextNode(PestGetNextPair(t, IntoInner(Append(inner.parent, inner.pos)), m)))
    ELSE PestCallInputs(t, inner, m, target, None)

\* let target = inner.next_node()?...; g is the outcome of next_node.
PestCallTarget(t, g) ==
    IF g.res.kind # "Some" THEN PestCallEnd(PestDrop(t, g.it, g.m), g.res)
    ELSE PestCallAlias(t, g.it, g.m, NodeAt(t, g.res.value.node).text)

PestCall(t, m) == PestCallTarget(t, PestNextNode(PestGetNextPair(t, IntoInner(<<>>), m)))

\* The call site lowered by the backend b: the Result.
LowerCall(b, s) ==
    IF b = "pest" THEN PestCall(PestCallTree(s), NewMachine).res
    ELSE TsCall(TsCallTree(s), NewMachine).res

CallCalls == {[fn |-> "call", backend |-> b, site |-> s] : b \in Backends, s \in CallSites}

(***************************************************************************)
(* Expressions.  An expression of the source is an identifier, a unary     *)
(* operator applied to an operand, a chain of operands joined by binary    *)
(* operators of one precedence level, or a chain of field and index        *)
(* accesses applied to an identifier.                                      *)
(***************************************************************************)
MaxOperands == 3
MaxAccesses == 2
MaxExprComments == 2

Id(name) == [x |-> "id", name |-> name]
Un(op, operand) == [x |-> "unary", op |-> op, operand |-> operand]
Bin(operands, operators) ==
    [x |-> "binary", operands |-> operands, operators |-> operators]
Acc(base, ops) == [x |-> "access", base |-> base, ops |-> ops]
FieldOp(name) == [x |-> "field", name |-> name]
IndexOp(e) == [x |-> "index", index |-> e]

AccessOps == {FieldOp("f"), IndexOp(Id("i"))}

AccessChains ==
    {Acc(Id("a"), ops) : ops \in UNION {[1..n -> AccessOps] : n \in 1..MaxAccesses}}

Operands == {Id("a"), Acc(Id("a"), <<FieldOp("f")>>)}

Binaries ==
    UNION {{Bin(operands, operators) : operands \in [1..n -> Operands],
                                       operators \in [1..(n - 1) -> {"add", "sub"}]} :
           n \in 2..MaxOperands}

Unaries == {Un("neg", e) : e \in Operands}

Expressions == {Id("a")} \cup Unaries \cup Binaries \cup AccessChains

\* --- the pairs of the pest backend ---
\* The productions of the precedence tower that the trees of this model
\* hold: math1 over unary over access over the primary.  A production with
\* nothing to do holds its single child.
RECURSIVE PestExprTree(_)
PestAccessOpTree(op) ==
    IF op.x = "field" THEN Branch("field", "", <<Leaf("identifier", "", op.name)>>)
    ELSE Branch("index", "", <<Branch("expression", "", <<PestExprTree(op.index)>>)>>)

PestAccessTree(e) ==
    IF e.x = "access"
    THEN Branch("access", "",
            <<Leaf("identifier", "", e.base.name)>>
            \o [i \in 1..Len(e.ops) |-> PestAccessOpTree(e.ops[i])])
    ELSE Branch("access", "", <<Leaf("identifier", "", e.name)>>)

PestUnaryTree(e) ==
    IF e.x = "unary"
    THEN Branch("unary", "", <<Leaf(e.op, "", e.op), PestAccessTree(e.operand)>>)
    ELSE Branch("unary", "", <<PestAccessTree(e)>>)

RECURSIVE PestOperandsFrom(_, _)
PestOperandsFrom(e, i) ==
    IF i > Len(e.operands) THEN <<>>
    ELSE (IF i > 1 THEN <<Leaf(e.operators[i - 1], "", e.operators[i - 1])>> ELSE <<>>)
         \o <<PestUnaryTree(e.operands[i])>> \o PestOperandsFrom(e, i + 1)

PestExprTree(e) ==
    IF e.x = "binary" THEN Branch("math1", "", PestOperandsFrom(e, 1))
    ELSE Branch("math1", "", <<PestUnaryTree(e)>>)

\* The pair of an expression.
PestExpressionTree(e) == Branch("expression", "", <<PestExprTree(e)>>)

\* The places of a pair a comment is found at: pest skips whitespace and
\* comments between the parts of a sequence, so a comment follows a child
\* (and is the last pair of a production whose optional rest did not match).
PestExprPlaces(slots) == {i \in 1..Len(slots) : slots[i].idx > 1}

\* The text the pairs span: a token takes one byte and one byte of
\* whitespace follows it.  "[", "]" and "." are tokens that leave no pair.
\* The span of a production that ends in an optional rest (access, math1)
\* runs over the whitespace behind its last token.
OpenTokens(kind) == IF kind \in {"index", "field"} THEN 1 ELSE 0
CloseTokens(kind) == IF kind = "index" THEN 1 ELSE 0
SkipsBehind(kind) == kind \in {"access", "math1"}

\* Layout(node, off): the node with the offsets of its span and of its last
\* token (start, end, tok), its first token at off; and the offset behind.
RECURSIVE Layout(_, _)
RECURSIVE LayoutKids(_, _, _)
LayoutKids(kids, off, done) ==
    IF kids = <<>> THEN done
    ELSE LayoutKids(Tail(kids), Layout(Head(kids), off).tok + 1,
                    Append(done, Layout(Head(kids), off)))

LaidBranch(node, off, kids) ==
    [kind |-> node.kind, field |-> node.field, flag |-> node.flag, row |-> node.row,
     text |-> node.text, atom |-> FALSE, kids |-> kids,
     start |-> off,
     tok |-> kids[Len(kids)].tok + 2 * CloseTokens(node.kind),
     end |-> IF SkipsBehind(node.kind)
             THEN kids[Len(kids)].tok + 1
             ELSE IF CloseTokens(node.kind) > 0 THEN kids[Len(kids)].tok + 2
             ELSE kids[Len(kids)].end]

Layout(node, off) ==
    IF node.atom
    THEN [kind |-> node.kind, field |-> node.field, flag |-> node.flag, row |-> node.row,
          text |-> node.text, atom |-> TRUE, kids |-> <<>>,
          start |-> off, tok |-> off + 1, end |-> off + 1]
    ELSE LaidBranch(node, off,
            LayoutKids(node.kids, off + 2 * OpenTokens(node.kind), <<>>))

\* PestNode::as_span
NodeSpan(node) ==
    [start |-> Position(1, node.start + 1, node.start),
     end |-> Position(1, node.end + 1, node.end)]

\* The pair of the expression e with the comments of the placement f.
PestExpressionPair(e, f) ==
    Layout(Place(PestExpressionTree(e), Slots(PestExpressionTree(e), <<>>), f, "pest"), 0)

\* --- model.rs: the expressions and their inner spans ---
Identifier(name) == [e |-> "Identifier", name |-> name]
UnaryOf(operator, expression) ==
    [e |-> "Unary", operator |-> operator, expression |-> expression]
BinaryOf(operator, left, right) ==
    [e |-> "Binary", operator |-> operator, left |-> left, right |-> right]
AccessOf(collection, accesses) ==
    [e |-> "Access", collection |-> collection, accesses |-> accesses]
FieldOf(name) == [op |-> "Field", name |-> name]
IndexOf(expression) == [op |-> "Index", expression |-> expression]

\* InnerSpan for Vec<Anchor<T>>
VecInnerSpan(v) ==
    IF Len(v) = 0 THEN None
    ELSE IF Len(v) = 1 THEN Some(v[1].span)
    ELSE Some(SpanFromRange(v[1].span, v[Len(v)].span))

\* InnerSpan for Unary, Binary and Access; the unwrap inside the one of
\* Access panics when there is no access.
GetInnerSpan(x) ==
    CASE x.e = "Unary" -> Some(x.expression.span)
      [] x.e = "Binary" -> Some(SpanFromRange(x.left.span, x.right.span))
      [] x.e = "Access" ->
            IF VecInnerSpan(x.accesses) = None THEN Panic
            ELSE Some(SpanFromRange(x.collection.span, VecInnerSpan(x.accesses).value))

\* --- pest/expressions.rs ---
UnaryRules == {"pos", "neg", "not"}
BinaryRules == {"add", "sub", "mul", "div", "mod", "gt", "lt", "gte", "lte", "eq", "neq",
                "and", "or"}
BinaryLevels == {"disjunction", "conjunction", "equality", "comparison", "math1", "math2"}

\* A return where the iterator it goes out of scope.
PestEnd(t, it, m, res) == [m |-> PestDrop(t, it, m).m, res |-> res]

\* The end of a scope whose last statement had the outcome r.
PestEndAfter(t, it, r) ==
    IF r.res = Panic THEN r ELSE [m |-> PestDrop(t, it, r.m).m, res |-> r.res]

\* PestNode::one_inner: next_node of a temporary iterator, which is dropped
\* before one_inner returns.
PestOneInnerGot(t, g) == [m |-> PestDrop(t, g.it, g.m).m, res |-> g.res]
PestOneInner(t, m, path) ==
    PestOneInnerGot(t, PestNextNode(PestGetNextPair(t, IntoInner(path), m)))

\* let span = x.get_inner_span().unwrap(); Ok(Anchor::new(x, span)), which
\* try_into_expression_anchor does and Expression::try_from does not; r is
\* the outcome of try_into_unary, try_into_binary or try_into_access.
PestAnchored(anchored, r) ==
    IF r.res.kind # "Ok" \/ ~anchored THEN r
    ELSE IF GetInnerSpan(r.res.value) = Panic THEN [m |-> r.m, res |-> Panic]
    ELSE [m |-> r.m, res |-> Okv(Anchor(r.res.value, GetInnerSpan(r.res.value).value))]

RECURSIVE PestExpr(_, _, _, _)
RECURSIVE TryIntoBinaryLoop(_, _, _, _)
RECURSIVE TryIntoAccessLoop(_, _, _, _, _)

\* The last arm of the two matches on the rule, for the rules the trees of
\* this model hold: Anchor::try_from takes the span of the node.
PestPrimary(t, m, path, anchored) ==
    IF NodeAt(t, path).kind # "identifier" THEN [m |-> m, res |-> Err(ParserError)]
    ELSE IF anchored
    THEN [m |-> m, res |-> Okv(Anchor(Identifier(NodeAt(t, path).text),
                                      NodeSpan(NodeAt(t, path))))]
    ELSE [m |-> m, res |-> Okv(Identifier(NodeAt(t, path).text))]

\* try_into_unary; r is the outcome of try_into_expression_anchor(second).
TryIntoUnaryOf(operator, r) ==
    IF r.res.kind # "Ok" THEN r
    ELSE [m |-> r.m, res |-> Okv(UnaryOf(operator, r.res.value))]
TryIntoUnary(t, m, first, second) ==
    IF NodeAt(t, first).kind \notin UnaryRules THEN [m |-> m, res |-> Err(ParserError)]
    ELSE TryIntoUnaryOf(NodeAt(t, first).kind, PestExpr(t, m, second, TRUE))

\* try_into_binary, which owns the iterator rest.  The operator is taken from
\* rest before first is lowered.
\* The body of the while loop for the operator node; r is the outcome of the
\* lowering of the right operand, g that of rest.next_node() before it.
\* TryIntoBinaryNext, mutated: the Binary folded so far is anchored with the
\* span of its right operand.
TryIntoBinaryNextRightSpan(t, it, bin, operator, r) ==
    IF r.res.kind # "Ok" THEN PestEndAfter(t, it, r)
    ELSE TryIntoBinaryLoop(t, it, r.m,
            BinaryOf(operator, Anchor(bin, bin.right.span), r.res.value))
TryIntoBinaryNext(t, it, bin, operator, r) ==
    IF r.res.kind # "Ok" THEN PestEndAfter(t, it, r)
    ELSE TryIntoBinaryLoop(t, it, r.m,
            BinaryOf(operator,
                     Anchor(bin, SpanFromRange(bin.left.span, bin.right.span)),
                     r.res.value))
TryIntoBinaryRight(t, bin, operator, g) ==
    IF g.res.kind # "Some" THEN PestEnd(t, g.it, g.m, g.res)
    ELSE TryIntoBinaryNext(t, g.it, bin, operator, PestExpr(t, g.m, g.res.value.node, TRUE))
TryIntoBinaryOperator(t, bin, g) ==
    IF g.res.kind = "None" THEN PestEnd(t, g.it, g.m, Okv(bin))
    ELSE IF g.res.kind # "Some" THEN PestEnd(t, g.it, g.m, g.res)
    ELSE IF NodeAt(t, g.res.value.node).kind \notin BinaryRules
    THEN PestEnd(t, g.it, g.m, Err(ParserError))
    ELSE TryIntoBinaryRight(t, bin, NodeAt(t, g.res.value.node).kind,
                            PestNextNode(PestGetNextPair(t, g.it, g.m)))
TryIntoBinaryLoop(t, it, m, bin) == TryIntoBinaryOperator(t, bin, PestGetNextPair(t, it, m))

\* The first Binary; r is the outcome of the lowering of the right operand.
TryIntoBinaryFirst(t, it, operator, left, r) ==
    IF r.res.kind # "Ok" THEN PestEndAfter(t, it, r)
    ELSE TryIntoBinaryLoop(t, it, r.m, BinaryOf(operator, left, r.res.value))
TryIntoBinarySecond(t, operator, left, g) ==
    IF g.res.kind # "Some" THEN PestEnd(t, g.it, g.m, g.res)
    ELSE TryIntoBinaryFirst(t, g.it, operator, left,
                            PestExpr(t, g.m, g.res.value.node, TRUE))
TryIntoBinaryLeft(t, it, operator, l) ==
    IF l.res.kind # "Ok" THEN PestEndAfter(t, it, l)
    ELSE TryIntoBinarySecond(t, operator, l.res.value,
                             PestNextNode(PestGetNextPair(t, it, l.m)))
TryIntoBinaryHead(t, first, g) ==
    IF g.res.kind # "Some" THEN PestEnd(t, g.it, g.m, g.res)
    ELSE IF NodeAt(t, g.res.value.node).kind \notin BinaryRules
    THEN PestEnd(t, g.it, g.m, Err(ParserError))
    ELSE TryIntoBinaryLeft(t, g.it, NodeAt(t, g.res.value.node).kind,
                           PestExpr(t, g.m, first, TRUE))
TryIntoBinary(t, m, first, rest) ==
    TryIntoBinaryHead(t, first, PestNextNode(PestGetNextPair(t, rest, m)))

\* try_into_access_operation_anchor of the node at path; o is the outcome of
\* one_inner, r that of the lowering of the inner node of an index.
AccessOperationIndex(span, r) ==
    IF r.res.kind # "Ok" THEN r
    ELSE [m |-> r.m, res |-> Okv(Anchor(IndexOf(r.res.value), span))]
AccessOperationInner(t, kind, o) ==
    IF o.res.kind # "Some" THEN o
    ELSE IF kind = "index"
    THEN AccessOperationIndex(NodeSpan(NodeAt(t, o.res.value.node)),
                              PestExpr(t, o.m, o.res.value.node, FALSE))
    ELSE [m |-> o.m,
          res |-> Okv(Anchor(FieldOf(NodeAt(t, o.res.value.node).text),
                             NodeSpan(NodeAt(t, o.res.value.node))))]
TryIntoAccessOperationAnchor(t, m, path) ==
    IF NodeAt(t, path).kind \notin {"index", "field"} THEN [m |-> m, res |-> Err(ParserError)]
    ELSE AccessOperationInner(t, NodeAt(t, path).kind, PestOneInner(t, m, path))

\* try_into_access, which owns the iterator rest: the collection, then the
\* operations collected from rest.
TryIntoAccessCollected(t, it, collection, acc, r) ==
    IF r.res = Panic THEN r
    ELSE IF r.res.kind # "Ok" THEN PestEnd(t, it, r.m, r.res)
    ELSE TryIntoAccessLoop(t, it, r.m, collection, Append(acc, r.res.value))
TryIntoAccessNext(t, collection, acc, g) ==
    IF g.res.kind = "None" THEN [m |-> g.m, res |-> Okv(AccessOf(collection, acc))]
    ELSE IF g.res.kind # "Some" THEN PestEnd(t, g.it, g.m, g.res)
    ELSE TryIntoAccessCollected(t, g.it, collection, acc,
                                TryIntoAccessOperationAnchor(t, g.m, g.res.value.node))
TryIntoAccessLoop(t, it, m, collection, acc) ==
    TryIntoAccessNext(t, collection, acc, PestGetNextPair(t, it, m))
TryIntoAccessCollection(t, rest, c) ==
    IF c.res.kind # "Ok" THEN PestEndAfter(t, rest, c)
    ELSE TryIntoAccessLoop(t, rest, c.m, c.res.value, <<>>)
TryIntoAccess(t, m, first, rest) ==
    TryIntoAccessCollection(t, rest, PestExpr(t, m, first, TRUE))

\* The arms of the binary levels, of unary and of access: g is the outcome
\* of inner.next_node(), g2 that of the second next_node of the unary arm.
PestUnarySecond(t, anchored, first, g2) ==
    IF g2.res.kind # "Some" THEN PestEnd(t, g2.it, g2.m, g2.res)
    ELSE PestEndAfter(t, g2.it,
            PestAnchored(anchored, TryIntoUnary(t, g2.m, first, g2.res.value.node)))
PestProduction(t, anchored, kind, g) ==
    IF g.res.kind # "Some" THEN PestEnd(t, g.it, g.m, g.res)
    ELSE IF PeekRule(PestRemaining(t, g.it)) = ""
    THEN PestEndAfter(t, g.it, PestExpr(t, g.m, g.res.value.node, anchored))
    ELSE IF kind = "unary"
    THEN PestUnarySecond(t, anchored, g.res.value.node,
                         PestNextNode(PestGetNextPair(t, g.it, g.m)))
    ELSE IF kind = "access"
    THEN PestAnchored(anchored, TryIntoAccess(t, g.m, g.res.value.node, g.it))
    ELSE PestAnchored(anchored, TryIntoBinary(t, g.m, g.res.value.node, g.it))

\* Rule::expression; o is the outcome of one_inner.
PestExpressionInner(t, anchored, o) ==
    IF o.res.kind # "Some" THEN o ELSE PestExpr(t, o.m, o.res.value.node, anchored)

\* try_into_expression_anchor (anchored) and Expression::try_from (not
\* anchored) of the node at path.
PestExpr(t, m, path, anchored) ==
    IF NodeAt(t, path).kind = "expression"
    THEN PestExpressionInner(t, anchored, PestOneInner(t, m, path))
    ELSE IF NodeAt(t, path).kind \in BinaryLevels \cup {"unary", "access"}
    THEN PestProduction(t, anchored, NodeAt(t, path).kind,
                        PestNextNode(PestGetNextPair(t, IntoInner(path), m)))
    ELSE PestPrimary(t, m, path, anchored)

\* --- the nodes of the tree-sitter backend: an access holds the chain
\* before it as its collection ---
RECURSIVE TsAccessTree(_, _, _)
TsAccessTree(e, n, field) ==
    IF n = 0 THEN Leaf("identifier", field, e.base.name)
    ELSE IF e.ops[n].x = "index"
    THEN Branch("index_expression", field,
            <<TsAccessTree(e, n - 1, "collection"), Leaf("[", "", "["),
              Leaf("identifier", "index", e.ops[n].index.name), Leaf("]", "", "]")>>)
    ELSE Branch("field_expression", field,
            <<TsAccessTree(e, n - 1, "object"), Leaf(".", "", "."),
              Leaf("identifier", "name", e.ops[n].name)>>)

TsExpressionNode(e) ==
    Layout(IF e.x = "access" THEN TsAccessTree(e, Len(e.ops), "")
           ELSE Leaf("identifier", "", e.name), 0)

\* --- tree_sitter/expressions.rs ---
RECURSIVE TsExpr(_, _, _, _)

\* TSNodeIterator::next_field on the outcome a of advance.
TsNextField(name, a) ==
    IF a.res.kind \in {"Err", "Panic"} THEN a
    ELSE IF a.res.kind = "None" \/ a.res.value.field # name
    THEN [a EXCEPT !.res = Err(ParserError)]
    ELSE a

\* TryFrom<TSNode> for Access, both arms: r is the outcome of the lowering of
\* the index, a that of next_field(INDEX) or next_field(NAME), s that of
\* skip_terminal, c that of try_into_boxed_anchor of the collection and a0
\* that of next_field(COLLECTION) or next_field(OBJECT).
TsAccessIndex(t, children, collection, span, r) ==
    IF r.res.kind # "Ok" THEN TsCallEnd(t, children, r.m, r.res)
    ELSE TsCallEnd(t, children, r.m,
            Okv(AccessOf(collection, <<Anchor(IndexOf(r.res.value), span)>>)))
TsAccessOperation(t, kind, collection, a) ==
    IF a.res.kind # "Some" THEN TsCallEnd(t, a.it, a.m, a.res)
    ELSE IF kind = "index_expression"
    THEN TsAccessIndex(t, a.it, collection, NodeSpan(NodeAt(t, a.res.value.node)),
                       TsExpr(t, a.m, a.res.value.node, FALSE))
    ELSE TsCallEnd(t, a.it, a.m,
            Okv(AccessOf(collection,
                    <<Anchor(FieldOf(NodeAt(t, a.res.value.node).text),
                             NodeSpan(NodeAt(t, a.res.value.node)))>>)))
TsAccessTerminal(t, kind, collection, s) ==
    IF s.res.kind # "Ok" THEN TsCallEnd(t, s.it, s.m, s.res)
    ELSE TsAccessOperation(t, kind, collection,
            TsNextField(IF kind = "index_expression" THEN "index" ELSE "name",
                        Advance(t, s.it, s.m)))
TsAccessCollection(t, kind, children, c) ==
    IF c.res.kind # "Ok" THEN TsCallEnd(t, children, c.m, c.res)
    ELSE TsAccessTerminal(t, kind, c.res.value,
            StepOn("tree_sitter", t,
                   SkipTerminal(IF kind = "index_expression" THEN "[" ELSE "."),
                   Advance(t, children, c.m)))
TsAccessFirst(t, kind, a0) ==
    IF a0.res.kind # "Some" THEN TsCallEnd(t, a0.it, a0.m, a0.res)
    ELSE TsAccessCollection(t, kind, a0.it, TsExpr(t, a0.m, a0.res.value.node, TRUE))
TsAccess(t, m, path) ==
    TsAccessFirst(t, NodeAt(t, path).kind,
        TsNextField(IF NodeAt(t, path).kind = "index_expression" THEN "collection"
                    ELSE "object",
                    Advance(t, FromChildren(path, "None", "None"), m)))

\* Anchor::try_from of a TSNode takes the span of the node; r is the
\* outcome of the lowering of the element.
TsAnchored(anchored, span, r) ==
    IF r.res.kind # "Ok" \/ ~anchored THEN r
    ELSE [m |-> r.m, res |-> Okv(Anchor(r.res.value, span))]

\* TryFrom<TSNode> for Expression, for the kinds the nodes of this model
\* have.
TsExpr(t, m, path, anchored) ==
    IF NodeAt(t, path).kind = "identifier"
    THEN TsAnchored(anchored, NodeSpan(NodeAt(t, path)),
                    [m |-> m, res |-> Okv(Identifier(NodeAt(t, path).text))])
    ELSE IF NodeAt(t, path).kind \in {"index_expression", "field_expression"}
    THEN TsAnchored(anchored, NodeSpan(NodeAt(t, path)), TsAccess(t, m, path))
    ELSE [m |-> m, res |-> Err(ParserError)]

\* The lowering of an expression to Anchor<Expression>: of the pair with the
\* comments of the placement f, or of the node.
LowerExpression(b, e, f) ==
    IF b = "pest" THEN PestExpr(PestExpressionPair(e, f), NewMachine, <<>>, TRUE)
    ELSE TsExpr(TsExpressionNode(e), NewMachine, <<>>, TRUE)

\* The expressions that are lowered with comments between their pairs: all
\* but the longer operator chains.
MaxCommentedOperands == 2

CommentedExpressions ==
    {Id("a")} \cup Unaries \cup AccessChains
    \cup {e \in Binaries : Len(e.operands) <= MaxCommentedOperands}

\* The calls of the lowering of an expression, with up to k comments.
ExpressionCalls(k) ==
    {[fn |-> "expression", backend |-> "pest", expr |-> c[1], comments |-> c[2]] :
        c \in UNION {{<<e, f>> :
                        f \in Placements(PestExprPlaces(Slots(PestExpressionTree(e), <<>>)),
                                         k, 0)} : e \in CommentedExpressions}}
    \cup {[fn |-> "expression", backend |-> "pest", expr |-> e, comments |-> <<>>] :
            e \in Expressions}
    \cup {[fn |-> "expression", backend |-> "tree_sitter", expr |-> e,
           comments |-> <<>>] : e \in AccessChains \cup {Id("a")}}

(***************************************************************************)
(* A tree-sitter node and its children, for the iterator on its own: the   *)
(* children are block ends, separators, a named field, a terminal and      *)
(* comments in any order, so that the iterator meets the child lists it    *)
(* accepts and those it is to reject.                                      *)
(***************************************************************************)
MaxChildren == 3
MaxBlock == 4

ChildKinds == {"{", "}", ",", "identifier", "input", "comment"}

\* The i-th child, of the given kind: a comment on line i, an identifier
\* with the field `name`, or a terminal.
ChildOf(kind, i) ==
    CASE kind = "comment" -> TsComment(i)
      [] kind = "identifier" -> Leaf("identifier", "name", "x")
      [] OTHER -> Leaf(kind, "", kind)

\* The nodes with at most n children.
NodesOf(n) ==
    {Branch("block", "", [i \in 1..Len(ks) |-> ChildOf(ks[i], i)]) :
        ks \in UNION {[1..k -> ChildKinds] : k \in 0..n}}

\* The nodes an iterator returns until it returns None or an Err: its items,
\* and what ended the iteration.
RECURSIVE IterateAll(_, _, _, _)
IterateNext(t, acc, a) ==
    IF a.res.kind = "Some" THEN IterateAll(t, a.it, a.m, Append(acc, a.res.value.node))
    ELSE [it |-> a.it, m |-> a.m, items |-> acc, res |-> a.res]
IterateAll(t, it, m, acc) == IterateNext(t, acc, Advance(t, it, m))

\* TSNode::into_block(ends, delim) of the node t, iterated to its end.
IntoBlock(t, ends, delim) ==
    IterateAll(t, FromChildren(<<>>, ends, delim), NewMachine, <<>>)

BlockCalls(n) ==
    {[fn |-> "into_block", node |-> t, delim |-> d] :
        t \in NodesOf(n), d \in {"None", "Comma"}}

SpanCalls ==
    {[fn |-> "new", start |-> a, end |-> b] : a \in Positions, b \in Positions}
    \cup {[fn |-> "from_range", left |-> l, right |-> r] : l \in Spans, r \in Spans}
    \cup {[fn |-> "from_components", start |-> a, end |-> b] :
            a \in Positions, b \in Positions}
    \cup {[fn |-> "trim_end", span |-> s, n |-> n] : s \in Spans, n \in 0..MaxOffset}
    \cup {[fn |-> "len", span |-> s] : s \in AnySpans}

\* Call::try_from of the tree-sitter backend, with the machine it leaves.
TryFromCalls ==
    {[fn |-> "try_from", site |-> c] : c \in CallSites}
    \cup {[fn |-> "try_from_import", stmt |-> c] : c \in ImportSites}

\* The calls, the expressions with up to k comments and the blocks with up
\* to n children.
FnCalls(k, n) ==
    SpanCalls \cup NamespaceCalls \cup IntegerCalls \cup CallCalls \cup ExpressionCalls(k)
    \cup BlockCalls(n) \cup TryFromCalls

\* A function of model.rs is about to be called.
InitFn ==
    /\ InitValidators /\ InitComments
    /\ backend = "" /\ tree = None /\ source = None /\ pc = "idle"
    /\ cursor = <<>> /\ comments = <<>> /\ doc = None /\ result = None
    /\ trace = <<>> /\ attempts = <<>> /\ yielded = <<>>
    /\ file = "" /\ prev = None /\ calls = 0
    /\ input = None /\ both = None
    /\ arg \in FnCalls(MaxExprComments, MaxBlock) /\ ret = None /\ iter = None

\* The variables a call of a function leaves alone.
FnFrame ==
    UNCHANGED <<valVars, cmVars, backend, tree, source, pc, cursor, comments, doc, result,
                trace, attempts, yielded, callVars, eqVars, arg, iter>>

CallSpanNew ==
    /\ ret = None /\ arg.fn = "new"
    /\ ret' = SpanNew(arg.start, arg.end)
    /\ FnFrame

CallSpanFromRange ==
    /\ ret = None /\ arg.fn = "from_range"
    /\ ret' = SpanFromRange(arg.left, arg.right)
    /\ FnFrame

CallSpanFromComponents ==
    /\ ret = None /\ arg.fn = "from_components"
    /\ ret' = SpanFromComponents(arg.start.line, arg.start.column, arg.start.offset,
                                 arg.end.line, arg.end.column, arg.end.offset)
    /\ FnFrame

CallSpanTrimEnd ==
    /\ ret = None /\ arg.fn = "trim_end"
    /\ ret' = SpanTrimEnd(arg.span, arg.n)
    /\ FnFrame

CallSpanLen ==
    /\ ret = None /\ arg.fn = "len"
    /\ ret' \in SpanLen(arg.span)
    /\ FnFrame

CallFromUri ==
    /\ ret = None /\ arg.fn = "from_uri"
    /\ ret' = FromUri(arg.uri)
    /\ FnFrame

CallImport ==
    /\ ret = None /\ arg.fn = "import"
    /\ ret' = ImportNamespace(arg.backend, arg.uri, arg.as, arg.comment)
    /\ FnFrame

CallIntegerFromStr ==
    /\ ret = None /\ arg.fn = "integer_from_str"
    /\ ret' = IntegerFromStr(arg.lexeme)
    /\ FnFrame

CallLowerCall ==
    /\ ret = None /\ arg.fn = "call"
    /\ ret' = LowerCall(arg.backend, arg.site)
    /\ FnFrame

CallLowerExpression ==
    /\ ret = None /\ arg.fn = "expression"
    /\ ret' = LowerExpression(arg.backend, arg.expr, arg.comments)
    /\ FnFrame

CallIntoBlock ==
    /\ ret = None /\ arg.fn = "into_block"
    /\ ret' = IntoBlock(arg.node, "Braces", arg.delim)
    /\ FnFrame

CallTryFrom ==
    /\ ret = None /\ arg.fn = "try_from"
    /\ ret' = TsCall(TsCallTree(arg.site), NewMachine)
    /\ FnFrame

CallTryFromImport ==
    /\ ret = None /\ arg.fn = "try_from_import"
    /\ ret' = TsImport(TsImportTree(arg.stmt), NewMachine)
    /\ FnFrame

NextFn ==
    \/ CallSpanNew \/ CallSpanFromRange \/ CallSpanFromComponents \/ CallSpanTrimEnd
    \/ CallSpanLen
    \/ CallFromUri \/ CallImport
    \/ CallIntegerFromStr
    \/ CallLowerCall
    \/ CallLowerExpression
    \/ CallIntoBlock
    \/ CallTryFrom \/ CallTryFromImport

SpecFn == InitFn /\ [][NextFn]_vars

(***************************************************************************)
(* The iterator driven by arbitrary calls.  One TSNodeIterator over the    *)
(* children of a node is given any sequence of the calls of its public     *)
(* interface and is dropped at any time; after an Err, which the `?` of    *)
(* the caller returns, it is only dropped.  arg is the last call and ret   *)
(* what it returned: next returns Some([node, field]), None or an Err; the *)
(* others a Result.                                                        *)
(***************************************************************************)
InitIter ==
    /\ InitValidators /\ InitComments
    /\ backend = "tree_sitter" /\ tree \in NodesOf(MaxChildren) /\ source = None
    /\ pc = "iterating"
    /\ cursor = <<>> /\ comments = <<>> /\ doc = None /\ result = None
    /\ trace = <<>> /\ attempts = <<>> /\ yielded = <<>>
    /\ file = "" /\ prev = None /\ calls = 0
    /\ input = None /\ both = None
    /\ arg = None /\ ret = None
    /\ iter \in {FromChildren(<<>>, e, d) : e \in {"None", "Braces"}, d \in {"None", "Comma"}}

\* The cursor and the comments the iterator shares.
IterMachine ==
    [cursor |-> cursor, comments |-> comments, taken |-> FALSE, attempts |-> attempts,
     yielded |-> yielded, trace |-> trace]

\* TSNodeIterator::next_node, res what advance returned.
NextNodeOf(res) ==
    IF res.kind = "Some" THEN Okv(res.value)
    ELSE IF res.kind = "None" THEN Err(ParserError)
    ELSE res

\* TSNodeIterator::skip_terminal
SkipTerminalOf(t, kind, res) ==
    IF res.kind = "Some"
    THEN IF res.value.field = "" /\ NodeAt(t, res.value.node).kind = kind THEN Okv("")
         ELSE Err(ParserError)
    ELSE IF res.kind = "None" THEN Err(ParserError)
    ELSE res

\* TSNodeIterator::skip_optional_last
SkipOptionalLastOf(t, kind, res) ==
    IF res.kind = "Some"
    THEN IF res.value.field = "" /\ NodeAt(t, res.value.node).kind = kind THEN Okv(TRUE)
         ELSE Err(ParserError)
    ELSE IF res.kind = "None" THEN Okv(FALSE)
    ELSE res

\* TSNodeIterator::get_next_field, mutated: the node is returned whatever
\* its field is.
GetNextFieldAnyLabel(name, res) ==
    IF res.kind = "Some" THEN Okv(Some(res.value))
    ELSE IF res.kind = "None" THEN Okv(None)
    ELSE res

\* TSNodeIterator::get_next_field
GetNextFieldOf(name, res) ==
    IF res.kind = "Some"
    THEN IF res.value.field = name THEN Okv(Some(res.value)) ELSE Err(ParserError)
    ELSE IF res.kind = "None" THEN Okv(None)
    ELSE res

\* TSNodeIterator::next_field: get_next_field(name).and_then(ok_or_else);
\* g is what get_next_field returned.
NextFieldOf(g) ==
    IF g.kind # "Ok" THEN g
    ELSE IF g.value.kind = "None" THEN Err(ParserError)
    ELSE Okv(g.value.value)

\* A call returned res after its advance had the outcome a.
Called(call, a, res) ==
    /\ arg' = call /\ ret' = res /\ iter' = a.it
    /\ pc' = IF res = Panic THEN "panicked" ELSE IF res.kind = "Err" THEN "failed" ELSE pc
    /\ cursor' = a.m.cursor /\ comments' = a.m.comments
    /\ attempts' = a.m.attempts /\ yielded' = a.m.yielded /\ trace' = a.m.trace
    /\ UNCHANGED <<valVars, cmVars, backend, tree, source, doc, result, callVars, eqVars>>

IterNext ==
    /\ pc = "iterating"
    /\ \E a \in {Advance(tree, iter, IterMachine)} : Called([fn |-> "next"], a, a.res)

IterNextNode ==
    /\ pc = "iterating"
    /\ \E a \in {Advance(tree, iter, IterMachine)} :
          Called([fn |-> "next_node"], a, NextNodeOf(a.res))

IterSkipTerminal ==
    /\ pc = "iterating"
    /\ \E kind \in {"input", "{"}, a \in {Advance(tree, iter, IterMachine)} :
          Called([fn |-> "skip_terminal", kind |-> kind], a,
                 SkipTerminalOf(tree, kind, a.res))

IterSkipOptionalLast ==
    /\ pc = "iterating"
    /\ \E a \in {Advance(tree, iter, IterMachine)} :
          Called([fn |-> "skip_optional_last", kind |-> "input"], a,
                 SkipOptionalLastOf(tree, "input", a.res))

IterGetNextField ==
    /\ pc = "iterating"
    /\ \E name \in {"name", "alias"}, a \in {Advance(tree, iter, IterMachine)} :
          Called([fn |-> "get_next_field", name |-> name], a, GetNextFieldOf(name, a.res))

IterNextField ==
    /\ pc = "iterating"
    /\ \E name \in {"name", "alias"}, a \in {Advance(tree, iter, IterMachine)} :
          Called([fn |-> "next_field", name |-> name], a,
                 NextFieldOf(GetNextFieldOf(name, a.res)))

\* Drop for TSNodeIterator; d is the outcome of drain(false), whose unwrap
\* panics on an Err.
IterDropped(d) ==
    /\ arg' = [fn |-> "drop"] /\ ret' = (IF d.res = Ok THEN Okv("") ELSE Panic)
    /\ iter' = d.it
    /\ pc' = IF d.res = Ok THEN "dropped" ELSE "panicked"
    /\ cursor' = d.m.cursor /\ comments' = d.m.comments
    /\ attempts' = d.m.attempts /\ yielded' = d.m.yielded /\ trace' = d.m.trace
    /\ UNCHANGED <<valVars, cmVars, backend, tree, source, doc, result, callVars, eqVars>>

IterDrop ==
    /\ pc \in {"iterating", "failed"}
    /\ \E d \in {Drain(tree, iter, IterMachine)} : IterDropped(d)

NextIter ==
    \/ IterNext \/ IterNextNode \/ IterSkipTerminal \/ IterSkipOptionalLast
    \/ IterGetNextField \/ IterNextField \/ IterDrop

\* The lowering calls the iterator until it is done with it, and drops it.
SpecIter == InitIter /\ [][NextIter]_vars

\* The largest child list of the runs that are checked for progress.
MaxLiveChildren == 1

InitIterLive == InitIter /\ tree \in NodesOf(MaxLiveChildren)

\* The lowering is a sequential program that runs on: as long as a call on
\* the iterator or its drop is possible, one of them is made.
SpecIterLive == InitIterLive /\ [][NextIter]_vars /\ WF_vars(NextIter)

(***************************************************************************)
(* What the validators are to decide, stated by counting.                  *)
(***************************************************************************)
TaskUniqueKinds == {"input", "output", "runtime", "meta", "parameter_meta"}
WorkflowUniqueKinds == {"input", "output", "meta", "parameter_meta"}

TaskWellFormed(body) ==
    /\ Count(body, "command") = 1
    /\ \A k \in TaskUniqueKinds : Count(body, k) <= 1

WorkflowWellFormed(body) == \A k \in WorkflowUniqueKinds : Count(body, k) <= 1

NumWorkflows(body) == Cardinality({i \in 1..Len(body) : body[i].kind = "workflow"})

NestedWellFormed(body) ==
    \A i \in 1..Len(body) :
        /\ body[i].kind = "task" => TaskWellFormed(body[i].body)
        /\ body[i].kind = "workflow" => WorkflowWellFormed(body[i].body)

\* C2: Document.validate returns Ok exactly when the body holds at least one
\* Struct, Task or Workflow, at most one Workflow, and every Task and Workflow of
\* the body is well formed; Imports do not count.
C2_DocumentValidateOk ==
    (vin.kind = "document" /\ vout # None) =>
        ((vout = Ok) <=>
            /\ \E i \in 1..Len(vin.body) : vin.body[i].kind \in {"struct", "task", "workflow"}
            /\ NumWorkflows(vin.body) <= 1
            /\ NestedWellFormed(vin.body))

C2_Witness ==
    /\ vin.kind = "document" /\ vout = [kind |-> "DocumentIncomplete"]
    /\ Len(vin.body) = 2
    /\ \A i \in 1..2 : vin.body[i].kind = "import"

C4_TaskValidateOk ==
    (vin.kind = "task" /\ vout # None) =>
        /\ (vout = Ok) <=> TaskWellFormed(vin.body)
        /\ vout = TaskValidate([vin EXCEPT
                        !.body = SelectSeq(vin.body, LAMBDA k : k # "declaration")])

C4_Witness ==
    /\ vin.kind = "task" /\ vout = Ok
    /\ Count(vin.body, "declaration") = 2

FirstWorkflowRepeat(body) ==
    LET rep == {i \in 1..Len(body) :
                    /\ body[i] \in WorkflowUniqueKinds
                    /\ \E j \in 1..(i - 1) : body[j] = body[i]}
    IN  IF rep = {} THEN 0 ELSE CHOOSE i \in rep : \A j \in rep : i <= j

\* C6: Workflow.validate returns Ok exactly when the body holds at most one each
\* of Input, Output, Meta, ParameterMeta; otherwise it fails with
\* WorkflowRepeatedElement naming the workflow and the kind of the first element,
\* in body order, that repeats an already seen kind.
C6_WorkflowValidate ==
    (vin.kind = "workflow" /\ vout # None) =>
        /\ (vout = Ok) <=> WorkflowWellFormed(vin.body)
        /\ vout # Ok =>
              vout = [kind |-> "WorkflowRepeatedElement", workflow |-> vin.name,
                      elem |-> vin.body[FirstWorkflowRepeat(vin.body)]]

C6_Witness ==
    /\ vin.kind = "workflow"
    /\ vin.body = <<"meta", "input", "input">>
    /\ vout = [kind |-> "WorkflowRepeatedElement", workflow |-> vin.name, elem |-> "input"]

\* The entries of a comment map as a set of <<key, value>> pairs.
EntrySet(map) == {<<map[i].key, map[i].value>> : i \in 1..Len(map)}

Ascending(entries) ==
    \A i \in 1..Len(entries), j \in 1..Len(entries) :
        i < j => entries[i].key < entries[j].key

Stages(tr) == SelectSeq(tr, LAMBDA e : e # "take")

IsPrefix(s, t) == Len(s) <= Len(t) /\ s = SubSeq(t, 1, Len(s))

\* C1: parse_text runs its stages in the order backend parse, fresh Comments
\* container, top-level lowering, stamping of doc.source, validators, so the
\* validators run once and on the stamped document; and it returns Ok(doc)
\* only with a doc the validators accept and whose source is the argument.
C1_StageOrder ==
    /\ IsPrefix(Stages(trace), <<"parse", "comments", "lower", "stamp", "validate">>)
    /\ (pc = "done" /\ result.kind = "Ok") =>
            /\ Stages(trace) = <<"parse", "comments", "lower", "stamp", "validate">>
            /\ DocumentValidate(result.value.body) = Ok
            /\ result.value.source = source

IsComment(path) == NodeAt(tree, path).kind \in {"comment", "COMMENT"}

\* The span the backend gives the node at path.
SpanOf(path) ==
    IF backend = "pest" THEN PestSpan(NodeAt(tree, path)) ELSE TsSpan(NodeAt(tree, path))

KeyedByStartLine(map) == \A i \in DOMAIN map : map[i].key = map[i].value.span.start.line

\* C8: a cursor of either backend never returns a comment; every comment
\* child it passes (every comment before a node it returned among them) is
\* handed to try_insert exactly once, under the start line of the comment's
\* own span; so every entry of the shared container and of Document.comments
\* has key = value.span.start.line.
C8_CommentsNeverYielded ==
    /\ \A i \in DOMAIN yielded : ~IsComment(yielded[i])
    /\ \A i \in DOMAIN attempts :
            /\ IsComment(attempts[i].node)
            /\ attempts[i].comment.span = SpanOf(attempts[i].node)
            /\ attempts[i].key = attempts[i].comment.span.start.line
    /\ \A i, j \in DOMAIN attempts : attempts[i].node = attempts[j].node => i = j
    /\ \A i \in DOMAIN yielded :
            \A k \in 1..(yielded[i][Len(yielded[i])] - 1) :
                IsComment(Append(Parent(yielded[i]), k)) =>
                    \E j \in DOMAIN attempts :
                        attempts[j].node = Append(Parent(yielded[i]), k)
    /\ KeyedByStartLine(comments)
    /\ result.kind = "Ok" => KeyedByStartLine(result.value.comments)

\* A tree-sitter parse returned a Document with two comments.
C8_Witness ==
    /\ backend = "tree_sitter" /\ pc = "done" /\ result.kind = "Ok"
    /\ Len(result.value.comments) = 2
    /\ Len(yielded) > 0

\* C9: no comment is inserted into the shared container after its contents
\* were taken, so every comment a cursor inserted, while it was advanced or
\* while it was drained on drop, is in the comments of the Document returned.
C9_TakenAfterHarvest ==
    /\ \A i \in DOMAIN attempts : ~attempts[i].taken
    /\ (pc = "done" /\ result.kind = "Ok") =>
            \A i \in DOMAIN attempts :
                attempts[i].ok =>
                    \E e \in DOMAIN result.value.comments :
                        /\ result.value.comments[e].key = attempts[i].key
                        /\ result.value.comments[e].value = attempts[i].comment

\* C10: the drop of a cursor never panics, whatever state the cursor is in.
C10_DropNeverPanics == pc # "panicked" /\ result.kind # "Panic"

\* The cursors of the parse came upon two comments that start on line l.
SameLineEncountered(l) ==
    \E i, j \in 1..Len(attempts) :
        /\ attempts[i].node # attempts[j].node
        /\ attempts[i].key = l /\ attempts[j].key = l

C12_ErrorsWrapped ==
    /\ (pc = "done" /\ result.kind = "Err") =>
            \/ /\ file # "" /\ calls = 0 /\ trace = <<>>
               /\ result.error = [kind |-> "IO", source |-> File(file)]
            \/ /\ calls > 0 /\ tree = NoTree
               /\ result.error = [kind |-> "Syntax", source |-> source]
            \/ /\ calls > 0 /\ tree # NoTree
               /\ result.error = [kind |-> "Model", source |-> source]
    /\ (file # "" /\ calls = 1) => source = File(file)

\* A Result of parse_text with the source taken out of it.
WithoutSource(r) ==
    IF r.kind = "Ok" THEN [kind |-> "Ok", value |-> [r.value EXCEPT !.source = "Unknown"]]
    ELSE IF r.kind = "Err" /\ "from" \in DOMAIN r.error
    THEN Err([r.error EXCEPT !.from = "Unknown"])
    ELSE r

ZeroBased(p) == Position(p.line - 1, p.column - 1, p.offset)
ZeroBasedSpan(s) == [start |-> ZeroBased(s.start), end |-> ZeroBased(s.end)]
ZeroBasedComments(map) ==
    [i \in 1..Len(map) |->
        [key |-> map[i].key - 1,
         value |-> Anchor(map[i].value.element, ZeroBasedSpan(map[i].value.span))]]

\* The text is valid: pest lowers it and the validators accept the Document.
ValidText ==
    /\ both # None /\ both.pest.kind = "Ok"
    /\ DocumentValidate(both.pest.value.body) = Ok

\* C14: for every valid text the two backends give equal Documents: the
\* same version, the same elements in the same order and the same comments,
\* once the one-based coordinates of pest are made zero-based.
C14_BackendsAgree ==
    ValidText =>
        /\ both.tree_sitter.kind = "Ok"
        /\ both.tree_sitter.value.version = both.pest.value.version
        /\ both.tree_sitter.value.body = both.pest.value.body
        /\ both.tree_sitter.value.comments = ZeroBasedComments(both.pest.value.comments)

\* The value is a Span whose start is below its end.
IsSpan(v) == DOMAIN v = {"start", "end"}
StartBelowEnd(v) == v.start.offset < v.end.offset

\* C15: every Span that new, from_range or from_components returns, and
\* every Span that trim_end leaves, has start.offset < end.offset (the
\* Spans handed to from_range and trim_end have it).
C15_SpanInvariant ==
    (ret # None /\ arg.fn \in {"new", "from_range", "from_components", "trim_end"}
        /\ IsSpan(ret))
    => StartBelowEnd(ret)

\* C16: len of a Span with start below end is the length in bytes of the
\* half-open range [start, end): end.offset - start.offset, which is the
\* length of the byte range the Span converts to.
C16_LenIsRangeLength ==
    (ret # None /\ arg.fn = "len" /\ StartBelowEnd(arg.span)) =>
        /\ ret = Usize(arg.span.end.offset - arg.span.start.offset)
        /\ ret = Usize(RangeLen(SpanIntoRange(arg.span)))

\* The namespace an import without "as" is to get: the final '/'-separated
\* segment of the URI (the whole URI when it has no '/'), without a trailing
\* ".wdl".
FinalSegment(s) ==
    LET slashes == {i \in 1..Len(s) : s[i] = "/"}
        from == IF slashes = {} THEN 1
                ELSE (CHOOSE i \in slashes : \A j \in slashes : j <= i) + 1
    IN  SubSeq(s, from, Len(s))

WithoutWdl(s) == IF EndsWith(s, Wdl) THEN SubSeq(s, 1, Len(s) - 4) ELSE s

\* C17: from_uri gives Implicit of the final '/'-separated segment of the URI
\* with a trailing ".wdl" removed; a lowered import without "as" has that
\* namespace, and one with "as name" has Explicit(name).
C17_NamespaceOfImport ==
    /\ (ret # None /\ arg.fn = "from_uri") =>
            ret = Implicit(WithoutWdl(FinalSegment(arg.uri)))
    /\ (ret # None /\ arg.fn = "import" /\ ret.kind = "Ok") =>
            ret.value = (IF arg.as = <<>> THEN Implicit(WithoutWdl(FinalSegment(arg.uri)))
                         ELSE Explicit(arg.as))

\* The class the prefix of a lexeme puts it in, and the digits it must have.
LexemeClass(s) ==
    IF Len(s) >= 2 /\ s[1] = "0" /\ s[2] \in {"x", "X"} THEN "Hex"
    ELSE IF Len(s) >= 2 /\ s[1] = "0" /\ IsDigit(s[2], 10) THEN "Octal"
    ELSE "Decimal"

LexemeDigits(s) ==
    CASE LexemeClass(s) = "Hex" -> SubSeq(s, 3, Len(s))
      [] LexemeClass(s) = "Octal" -> SubSeq(s, 2, Len(s))
      [] OTHER -> s

LexemeRadix(s) ==
    CASE LexemeClass(s) = "Hex" -> 16 [] LexemeClass(s) = "Octal" -> 8 [] OTHER -> 10

WellFormed(s) ==
    /\ LexemeDigits(s) # <<>>
    /\ \A i \in 1..Len(LexemeDigits(s)) : IsDigit(LexemeDigits(s)[i], LexemeRadix(s))

Unsigned(s) == \A i \in 1..Len(s) : s[i] # "-"

\* C18: for a lexeme of digits and letters, from_str gives the tag its prefix
\* decides (0x/0X: Hex, 0 and a digit: Octal, else Decimal) with the value of
\* its digits in radix 16, 8 or 10 when the lexeme is a well-formed literal of
\* that class, and fails with Integer(lexeme) when it is not.
C18_IntegerFromStr ==
    (ret # None /\ arg.fn = "integer_from_str" /\ Unsigned(arg.lexeme)) =>
        ret = IF WellFormed(arg.lexeme)
              THEN Okv([tag |-> LexemeClass(arg.lexeme),
                        value |-> DigitsValue(LexemeDigits(arg.lexeme),
                                              LexemeRadix(arg.lexeme), 0)])
              ELSE Err([kind |-> "Integer", lexeme |-> arg.lexeme])

\* C19: a call that is lowered has inputs = None exactly when the call site
\* has no brace block and Some(list) when it has one, the list empty exactly
\* when the block is empty; its alias is Some(name) exactly when the call site
\* has `as name`, whatever the inputs are.
C19_CallInputsAndAlias ==
    (ret # None /\ arg.fn = "call" /\ ret.kind = "Ok") =>
        /\ (ret.value.inputs = None) <=> (arg.site.block = "none")
        /\ arg.site.block # "none" =>
              /\ ret.value.inputs.kind = "Some"
              /\ (ret.value.inputs.value = <<>>) <=> (arg.site.inputs = 0)
        /\ ret.value.alias = (IF arg.site.alias THEN Some("U") ELSE None)

\* C20: a call site with a block, with the keyword `input:` or without it, is
\* lowered to inputs = Some(the inputs the block lists); it is not rejected.
C20_BothBlockForms ==
    (ret # None /\ arg.fn = "call" /\ arg.site.block # "none"
        /\ arg.site.comment = "none") =>
        /\ ret.kind = "Ok"
        /\ ret.value.inputs = Some(SiteInputs(arg.site))


\* The access operation an operation of a chain is to be lowered to.
OperationOf(op) ==
    IF op.x = "field" THEN FieldOf(op.name) ELSE IndexOf(Identifier(op.index.name))

\* An Access whose collection is the base of the chain and whose accesses
\* are the operations of the chain in order.
SingleAccess(x, e) ==
    /\ x.e = "Access"
    /\ x.collection.element = Identifier(e.base.name)
    /\ Len(x.accesses) = Len(e.ops)
    /\ \A i \in 1..Len(e.ops) : x.accesses[i].element = OperationOf(e.ops[i])

\* C21: on both backends a chain of n >= 1 accesses applied to a base is
\* lowered to one Access whose collection is the base and whose accesses are
\* the n operations in source order; the collection is not an Access of the
\* same chain.
C21_SingleAccess ==
    (ret # None /\ arg.fn = "expression" /\ arg.expr \in AccessChains
        /\ arg.comments = <<>>) =>
        /\ ret.res.kind = "Ok"
        /\ SingleAccess(ret.res.value.element, arg.expr)


\* The expression an operand of this model is to be lowered to, as its kind.
OperandKind(o) == IF o.x = "id" THEN "Identifier" ELSE "Access"

\* The anchor x is the left-deep fold of the first k operands of e: k - 1
\* Binary nodes, the operators and operands in source order, and every
\* Binary anchored from the start of its left operand to the end of its
\* right operand.
RECURSIVE LeftDeep(_, _, _)
LeftDeep(x, e, k) ==
    IF k = 1 THEN x.element.e = OperandKind(e.operands[1])
    ELSE /\ x.element.e = "Binary"
         /\ x.element.operator = e.operators[k - 1]
         /\ x.element.right.element.e = OperandKind(e.operands[k])
         /\ LeftDeep(x.element.left, e, k - 1)
         /\ x.element.left.span.end.offset <= x.element.right.span.start.offset
         /\ x.span = [start |-> x.element.left.span.start,
                      end |-> x.element.right.span.end]

\* C26: the pest backend lowers e1 op1 e2 ... en (n >= 2) to a left-deep tree
\* of n - 1 Binary nodes with the operators and operands in source order,
\* every Binary node anchored from the start of its left operand to the end
\* of its right operand; a production with a single child is lowered to that
\* child, without a Binary node.
C26_LeftDeepFold ==
    (ret # None /\ arg.fn = "expression" /\ arg.backend = "pest"
        /\ arg.comments = <<>>) =>
        /\ ret.res.kind = "Ok"
        /\ arg.expr.x = "binary" =>
              LeftDeep(ret.res.value, arg.expr, Len(arg.expr.operands))
        /\ arg.expr.x # "binary" => ret.res.value.element.e # "Binary"

C26_Witness ==
    /\ ret # None /\ arg.fn = "expression" /\ arg.backend = "pest"
    /\ arg.comments = <<>> /\ arg.expr.x = "binary" /\ Len(arg.expr.operands) = MaxOperands
    /\ ret.res.kind = "Ok"
    /\ ret.res.value.element.left.element.e = "Binary"


\* The pair of the production an expression of this model is lowered from:
\* math1 for a binary, unary for a unary, access for a chain.
ProductionOf(pair, e) ==
    CASE e.x = "binary" -> NodeAt(pair, <<1>>)
      [] e.x = "unary" -> NodeAt(pair, <<1, 1>>)
      [] OTHER -> NodeAt(pair, <<1, 1, 1>>)

\* union(first_inner_span, last_inner_span) of the lowered expression x of
\* the production node: the first child is the operator of a unary, the left
\* operand of a binary, the collection of an access; the last child is the
\* operand of a unary, the right operand of a binary, the last operation of
\* an access.
InnerSpanOf(node, x) ==
    CASE x.e = "Unary" ->
            [start |-> NodeSpan(node.kids[1]).start, end |-> x.expression.span.end]
      [] x.e = "Binary" -> [start |-> x.left.span.start, end |-> x.right.span.end]
      [] x.e = "Access" ->
            [start |-> x.collection.span.start,
             end |-> x.accesses[Len(x.accesses)].span.end]

\* C27: the pest backend anchors a unary, binary or access expression from
\* the start of the first child of its production (the operator of a unary,
\* the left operand of a binary, the collection of an access) to the end of
\* its last child, and not with the span of the production itself.
C27_InnerSpan ==
    (ret # None /\ arg.fn = "expression" /\ arg.backend = "pest"
        /\ arg.comments = <<>> /\ arg.expr.x \in {"unary", "binary", "access"}) =>
        /\ ret.res.kind = "Ok"
        /\ ret.res.value.span =
              InnerSpanOf(ProductionOf(PestExpressionPair(arg.expr, arg.comments), arg.expr),
                          ret.res.value.element)
        /\ ret.res.value.span #
              NodeSpan(ProductionOf(PestExpressionPair(arg.expr, arg.comments), arg.expr))


\* The line keys of the calls of try_insert that inserted, in call order.
RECURSIVE InsertedKeys(_)
InsertedKeys(att) ==
    IF att = <<>> THEN <<>>
    ELSE (IF Head(att).ok THEN <<Head(att).key>> ELSE <<>>) \o InsertedKeys(Tail(att))

StrictlyAscending(keys) == \A i \in 1..(Len(keys) - 1) : keys[i] < keys[i + 1]

\* The successful calls of try_insert for the comments one iterator found
\* (the pairs of one node) have strictly ascending line keys in call order.
AscendingPerIterator(att) ==
    \A i, j \in 1..Len(att) :
        (i < j /\ att[i].ok /\ att[j].ok
            /\ SubSeq(att[i].node, 1, Len(att[i].node) - 1)
                = SubSeq(att[j].node, 1, Len(att[j].node) - 1)) =>
            att[i].key < att[j].key

RECURSIVE Plain(_)
PlainOperation(op) ==
    IF op.op = "Index" THEN IndexOf(Plain(op.expression)) ELSE op
Plain(x) ==
    CASE x.e = "Unary" -> UnaryOf(x.operator, Plain(x.expression.element))
      [] x.e = "Binary" ->
            BinaryOf(x.operator, Plain(x.left.element), Plain(x.right.element))
      [] x.e = "Access" ->
            AccessOf(Plain(x.collection.element),
                     [i \in 1..Len(x.accesses) |-> PlainOperation(x.accesses[i].element)])
      [] OTHER -> x

\* C29: the result of the pest lowering does not depend on the comments: a
\* call site with a comment between its children is lowered to the Call of
\* the site without the comment, and an expression with comments to the
\* expression (spans apart) that the pair without comments is lowered to.
C29_CommentsDoNotMatter ==
    /\ (ret # None /\ arg.fn = "call" /\ arg.backend = "pest") =>
          ret = LowerCall("pest", [arg.site EXCEPT !.comment = "none"])
    /\ (ret # None /\ arg.fn = "expression" /\ arg.backend = "pest") =>
          /\ ret.res.kind = "Ok"
          /\ Plain(ret.res.value.element)
             = Plain(LowerExpression("pest", arg.expr, <<>>).res.value.element)


NonComments(t) == SelectSeq([i \in 1..Len(t.kids) |-> i], LAMBDA i : t.kids[i].kind # "comment")

\* The kinds a block with the separator delim has as items.
ItemKinds(delim) == {"identifier", "input"} \cup (IF delim = "None" THEN {","} ELSE {})

\* What into_block is to accept: the children ks (indices of t, comments
\* left out) open with `{` and close with `}`, and between them stand items,
\* with one separator between two of them when the block has a separator
\* (and one after the last item is tolerated).
IsBlock(t, ks, delim) ==
    /\ Len(ks) >= 2
    /\ t.kids[ks[1]].kind = "{" /\ t.kids[ks[Len(ks)]].kind = "}"
    /\ \A j \in 2..(Len(ks) - 1) :
          IF delim = "None" \/ j % 2 = 0
          THEN t.kids[ks[j]].kind \in ItemKinds(delim)
          ELSE t.kids[ks[j]].kind = ","

\* The items of such a block, as the iterator names them.
InnerItems(t, ks, delim) ==
    SelectSeq([j \in 1..(Len(ks) - 2) |-> <<ks[j + 1]>>],
              LAMBDA p : t.kids[p[1]].kind \in ItemKinds(delim))

\* C23: an iterator made by into_block(Braces, delim) returns the items of a
\* node whose children form a block, in order, and ends without an error;
\* on any other node that has a child which is not a comment it ends in a
\* Grammar error; and it never returns an opening or closing brace, or a
\* separator of a block that has one.
C23_BlockFraming ==
    (ret # None /\ arg.fn = "into_block") =>
        /\ \A i \in 1..Len(ret.items) :
              NodeAt(arg.node, ret.items[i]).kind \in ItemKinds(arg.delim)
        /\ IsBlock(arg.node, NonComments(arg.node), arg.delim) =>
              /\ ret.res = None
              /\ ret.items = InnerItems(arg.node, NonComments(arg.node), arg.delim)
        /\ (~IsBlock(arg.node, NonComments(arg.node), arg.delim)
                /\ NonComments(arg.node) # <<>>) => ret.res = Err(ParserError)


\* The child of t an iterator over all children (no ends, no separator) is
\* to return next, 0 if there is none: the first child that is not a
\* comment behind the child it returned last.
NextChild(t, it, cur) ==
    LET from == IF it.state = "Enter" THEN 1
                ELSE IF it.state = "Done" THEN Len(t.kids) + 1
                ELSE cur[1] + 1
        rest == {j \in from..Len(t.kids) : t.kids[j].kind # "comment"}
    IN IF rest = {} THEN 0 ELSE CHOOSE j \in rest : \A k \in rest : j <= k

\* What the call is to return when child j is the next one (0: none), and
\* where it is to leave the cursor.
FieldReturned(t, call, j, r, cur) ==
    LET child == [node |-> <<j>>, field |-> IF j = 0 THEN "" ELSE t.kids[j].field] IN
    CASE call.fn = "get_next_field" ->
            IF j = 0 THEN r = Okv(None)
            ELSE IF child.field = call.name THEN r = Okv(Some(child)) /\ cur = <<j>>
            ELSE r = Err(ParserError)
      [] call.fn = "next_field" ->
            IF j = 0 THEN r = Err(ParserError)
            ELSE IF child.field = call.name THEN r = Okv(child) /\ cur = <<j>>
            ELSE r = Err(ParserError)
      [] call.fn = "next_node" ->
            IF j = 0 THEN r = Err(ParserError) ELSE r = Okv(child) /\ cur = <<j>>
      [] OTHER -> TRUE

IsTerminal(t, j, kind) == j # 0 /\ t.kids[j].kind = kind /\ t.kids[j].field = ""

\* C25: skip_optional_last(kind) moves on to the next child when it
\* is a terminal of that kind, and otherwise returns without an error and
\* leaves iterator and cursor as they were.
C25_SkipLeavesUnchanged ==
    [][(pc = "iterating" /\ iter.ends = "None" /\ iter.delim = "None"
            /\ arg'.fn = "skip_optional_last") =>
          IF IsTerminal(tree, NextChild(tree, iter, cursor), arg'.kind)
          THEN ret' = Okv(TRUE) /\ cursor' = <<NextChild(tree, iter, cursor)>>
          ELSE ret'.kind = "Ok" /\ iter' = iter /\ cursor' = cursor]_vars


\* The calls that lower with the iterators of the tree-sitter backend and
\* return the machine.
LowersByCursor(call) ==
    \/ call.fn \in {"try_from", "try_from_import"}
    \/ call.fn = "expression" /\ call.backend = "tree_sitter"

\* C30: in a lowering of the tree-sitter backend the iterators are nested:
\* whenever advance is called, in a call of the lowering or in a drop, the
\* shared cursor stands on the node the iterator was made for (before its
\* first and after its last child) or on one of that node's children, so
\* every iterator made from a node it returned has reached Done; and a
\* lowering that returns Ok has met no panic of the assertion in Enter.
C30_StrictlyNested ==
    (ret # None /\ LowersByCursor(arg)) =>
        /\ \A i \in 1..Len(ret.m.trace) : ret.m.trace[i] # "unnested"
        /\ ret.res.kind = "Ok" => ret.m.cursor = <<>>

\* A call with an alias and a block of two inputs was lowered: the iterators
\* of the alias and of the block were made and dropped inside that of the
\* call.
C30_Witness ==
    /\ ret # None /\ arg.fn = "try_from" /\ ret.res.kind = "Ok"
    /\ arg.site.alias /\ arg.site.block = "keyword" /\ arg.site.inputs = 2
    /\ \E i \in 1..Len(ret.m.yielded) : Len(ret.m.yielded[i]) = 2
    /\ ret.m.cursor = <<>>

====
